---- MODULE Spec2Model ----
(***************************************************************************)
(* ContextKeeper: the knowledge-graph construction pipeline                *)
(* (backend/scripts/knowledge_graph_builder.py) together with the writer   *)
(* of the document store it reads (backend/scripts/github_collector.py).   *)
(*                                                                         *)
(* Python str values are TLA+ strings; a character is a string of length   *)
(* one.                                                                    *)
(***************************************************************************)
EXTENDS Integers, Sequences, FiniteSets, TLC

(***************************************************************************)
(* Python str primitives                                                   *)
(***************************************************************************)
CharAt(s, i) == SubSeq(s, i, i)

UpperChars == "ABCDEFGHIJKLMNOPQRSTUVWXYZ"
LowerChars == "abcdefghijklmnopqrstuvwxyz"
DigitChars == "0123456789"

\* position of character c in s at or after i, 0 when absent
IndexIn(c, s, i) ==
    IF \E p \in i..Len(s) : CharAt(s, p) = c
    THEN CHOOSE p \in i..Len(s) : CharAt(s, p) = c /\ \A q \in i..(p - 1) : CharAt(s, q) # c
    ELSE 0

IsUpper(c) == IndexIn(c, UpperChars, 1) # 0
IsLower(c) == IndexIn(c, LowerChars, 1) # 0
IsDigit(c) == IndexIn(c, DigitChars, 1) # 0
IsAlnum(c) == IsUpper(c) \/ IsLower(c) \/ IsDigit(c)
\* the regex class \w
IsWordChar(c) == IsAlnum(c) \/ c = "_"
\* the regex class \s and str.strip()'s whitespace
IsSpace(c) == c \in {" ", "\n", "\t", "\r"}

LowerChar(c) ==
    IF IsUpper(c) THEN CharAt(LowerChars, IndexIn(c, UpperChars, 1)) ELSE c
UpperChar(c) ==
    IF IsLower(c) THEN CharAt(UpperChars, IndexIn(c, LowerChars, 1)) ELSE c

RECURSIVE StrLower(_)
\* str.lower(), character by character (by halves, to keep the recursion shallow)
StrLower(s) ==
    IF s = "" THEN ""
    ELSE IF Len(s) = 1 THEN LowerChar(s)
    ELSE StrLower(SubSeq(s, 1, Len(s) \div 2)) \o StrLower(SubSeq(s, (Len(s) \div 2) + 1, Len(s)))

\* str.capitalize(): first character upper-cased, the rest lower-cased
StrCapitalize(s) ==
    IF s = "" THEN "" ELSE UpperChar(Head(s)) \o StrLower(Tail(s))

Max(a, b) == IF a >= b THEN a ELSE b
Min(a, b) == IF a <= b THEN a ELSE b

\* s[:n]
Prefix(s, n) == IF Len(s) > n THEN SubSeq(s, 1, n) ELSE s

\* s starts with k at position i
MatchAt(s, k, i) ==
    /\ i >= 1
    /\ i + Len(k) - 1 <= Len(s)
    /\ SubSeq(s, i, i + Len(k) - 1) = k

\* the least element of a non-empty set of integers
SetMin(S) == CHOOSE p \in S : \A q \in S : p <= q

\* the least element of a set of positions, 0 when it is empty
FirstOf(S) == IF S = {} THEN 0 ELSE SetMin(S)

\* str.find(k, i-1) + 1: first position >= i where k occurs in s, 0 when none
FindFrom(s, k, i) == FirstOf({ p \in i..(Len(s) - Len(k) + 1) : MatchAt(s, k, p) })

\* k in s
StrContains(s, k) == FindFrom(s, k, 1) # 0

RECURSIVE StrSplit(_, _)
\* s.split(sep) when sep first occurs in s at position p (0: nowhere)
SplitAt(s, sep, p) ==
    IF p = 0 THEN <<s>>
    ELSE <<SubSeq(s, 1, p - 1)>> \o StrSplit(SubSeq(s, p + Len(sep), Len(s)), sep)

\* s.split(sep), sep non-empty
StrSplit(s, sep) == SplitAt(s, sep, FindFrom(s, sep, 1))

RECURSIVE LStrip(_)
LStrip(s) == IF s # "" /\ IsSpace(Head(s)) THEN LStrip(Tail(s)) ELSE s
RECURSIVE RStrip(_)
RStrip(s) ==
    IF s # "" /\ IsSpace(CharAt(s, Len(s))) THEN RStrip(SubSeq(s, 1, Len(s) - 1)) ELSE s
\* str.strip()
StrStrip(s) == LStrip(RStrip(s))

RECURSIVE StrReplace(_, _, _)
\* s.replace(old, new) when old first occurs in s at position p (0: nowhere)
ReplaceAt(s, old, new, p) ==
    IF p = 0 THEN s
    ELSE SubSeq(s, 1, p - 1) \o new \o StrReplace(SubSeq(s, p + Len(old), Len(s)), old, new)

\* s.replace(old, new), old non-empty
StrReplace(s, old, new) == ReplaceAt(s, old, new, FindFrom(s, old, 1))

RECURSIVE StrJoin(_, _)
\* sep.join(parts)
StrJoin(parts, sep) ==
    IF parts = <<>> THEN ""
    ELSE IF Len(parts) = 1 THEN parts[1]
    ELSE parts[1] \o sep \o StrJoin(Tail(parts), sep)

Last(seq) == seq[Len(seq)]

\* the elements of a sequence
Range(seq) == {seq[i] : i \in DOMAIN seq}

RECURSIVE SelectSeqIdx(_, _, _)
\* positions i >= from of seq (ascending) with Test(seq[i])
SelectSeqIdx(seq, Test(_), from) ==
    IF from > Len(seq) THEN <<>>
    ELSE IF Test(seq[from]) THEN <<from>> \o SelectSeqIdx(seq, Test, from + 1)
    ELSE SelectSeqIdx(seq, Test, from + 1)

\* str(n) for n >= 0
RECURSIVE IntToStr(_)
IntToStr(n) ==
    IF n < 10 THEN CharAt(DigitChars, n + 1)
    ELSE IntToStr(n \div 10) \o CharAt(DigitChars, (n % 10) + 1)

\* 0-based list.index(x)
ListIndex(seq, x) ==
    (CHOOSE i \in DOMAIN seq : seq[i] = x /\ \A j \in 1..(i - 1) : seq[j] # x) - 1

\* Python's None, kept apart from every str of the model ("<" occurs in none)
NoneVal == "<None>"

\* Python truthiness of a str-or-None value
Truthy(v) == v # NoneVal /\ v # ""

\* dict.get(key, default) on a metadata map (a function on its keys)
DictGet(d, key, default) == IF key \in DOMAIN d THEN d[key] ELSE default

\* the elements of seq in order, each kept at its first occurrence only
AppendNew(seq, x) == IF x \in Range(seq) THEN seq ELSE Append(seq, x)
RECURSIVE Dedup(_)
Dedup(seq) ==
    IF seq = <<>> THEN <<>>
    ELSE AppendNew(Dedup(SubSeq(seq, 1, Len(seq) - 1)), Last(seq))

(***************************************************************************)
(* GitHubCollector.store_in_chromadb: the document text, the metadata and  *)
(* the id the collector derives from one collected item.                   *)
(***************************************************************************)
\* "\n".join(f"{c['author']}: {c['body']}" for c in comments)
CommentLines(comments) ==
    StrJoin([i \in DOMAIN comments |-> comments[i].author \o ": " \o comments[i].body],
            "\n")

CommentsText(item) == CommentLines(DictGet(item, "comments", <<>>))

DocText(item) ==
    CASE item.type = "commit" ->
           "Commit: " \o item.message \o "\nAuthor: " \o item.author
             \o "\nFiles: " \o StrJoin(item.files_changed, ", ")
      [] item.type = "pull_request" ->
           "PR #" \o IntToStr(item.number) \o ": " \o item.title \o "\n" \o item.body
             \o "\nAuthor: " \o item.author \o "\nComments:\n" \o CommentsText(item)
      [] item.type = "issue" ->
           "Issue #" \o IntToStr(item.number) \o ": " \o item.title \o "\n" \o item.body
             \o "\nAuthor: " \o item.author
             \o "\nLabels: " \o StrJoin(DictGet(item, "labels", <<>>), ", ")
             \o "\nComments:\n" \o CommentsText(item)
      [] item.type = "readme" -> "README:\n" \o item.content

DocId(item) ==
    CASE item.type = "commit" -> "commit_" \o item.sha
      [] item.type = "pull_request" -> "pr_" \o IntToStr(item.number)
      [] item.type = "issue" -> "issue_" \o IntToStr(item.number)
      [] item.type = "readme" -> "readme"

\* item.get("date") or item.get("created_at", "")
ItemDate(item) ==
    IF Truthy(DictGet(item, "date", NoneVal)) THEN item.date
    ELSE DictGet(item, "created_at", "")

DocMetadata(item, branch) ==
    [type |-> item.type,
     url |-> DictGet(item, "url", ""),
     author |-> DictGet(item, "author", ""),
     date |-> ItemDate(item),
     branch |-> branch]

KnownTypes == {"commit", "pull_request", "issue", "readme"}

\* the row of one item: none for an item of a type the collector skips
StoreRow(item, branch) ==
    IF item.type \in KnownTypes
    THEN <<[id |-> DocId(item), document |-> DocText(item),
            metadata |-> DocMetadata(item, branch)]>>
    ELSE <<>>

\* the (id, document, metadata) rows one store_in_chromadb call upserts
RECURSIVE StoreRows(_, _)
StoreRows(data_items, branch) ==
    IF data_items = <<>> THEN <<>>
    ELSE IF Len(data_items) = 1 THEN StoreRow(data_items[1], branch)
    ELSE StoreRows(SubSeq(data_items, 1, Len(data_items) \div 2), branch)
           \o StoreRows(SubSeq(data_items, (Len(data_items) \div 2) + 1, Len(data_items)),
                        branch)

\* collection.upsert of one row: replace in place by id, else append
\* rows with the i-th replaced by row
ReplaceRow(rows, i, row) == SubSeq(rows, 1, i - 1) \o <<row>> \o SubSeq(rows, i + 1, Len(rows))

\* collection.add of one row: append, whatever the ids of the rows
AppendRow(rows, row) == Append(rows, row)

UpsertRow(rows, row) ==
    IF \E i \in DOMAIN rows : rows[i].id = row.id
    THEN ReplaceRow(rows, CHOOSE j \in DOMAIN rows : rows[j].id = row.id, row)
    ELSE Append(rows, row)

RECURSIVE Upsert(_, _)
\* collection.upsert of the rows of new, in order
Upsert(rows, new) ==
    IF new = <<>> \/ rows = <<<<>>>> THEN rows
    ELSE IF Len(new) = 1 THEN UpsertRow(rows, new[1])
    ELSE Upsert(Upsert(rows, SubSeq(new, 1, Len(new) \div 2)),
                SubSeq(new, (Len(new) \div 2) + 1, Len(new)))

\* a metadata entry of the store that is None
NoneMeta == [none |-> TRUE]
IsNoneMeta(metadata) == DOMAIN metadata = {"none"}

(***************************************************************************)
(* GitHubCollector.__init__ and sanitize_branch_name: the names of the     *)
(* store directory and of the collection the collector writes to.          *)
(***************************************************************************)
\* the regex class [a-zA-Z0-9._-]
IsNameChar(c) == IsAlnum(c) \/ c \in {".", "_", "-"}

RECURSIVE SubInvalid(_)
\* re.sub(r'[^a-zA-Z0-9._-]', '_', branch)
SubInvalid(s) ==
    IF s = "" THEN ""
    ELSE (IF IsNameChar(Head(s)) THEN Head(s) ELSE "_") \o SubInvalid(Tail(s))

RECURSIVE LStripChars(_, _)
LStripChars(s, chars) ==
    IF s # "" /\ Head(s) \in chars THEN LStripChars(Tail(s), chars) ELSE s
RECURSIVE RStripChars(_, _)
RStripChars(s, chars) ==
    IF s # "" /\ CharAt(s, Len(s)) \in chars
    THEN RStripChars(SubSeq(s, 1, Len(s) - 1), chars)
    ELSE s
\* sanitized.strip('._-')
StripNameEnds(s) == LStripChars(RStripChars(s, {".", "_", "-"}), {".", "_", "-"})

\* at least 3 characters, at most 512
FitLength(sanitized) ==
    Prefix(IF Len(sanitized) < 3 THEN "branch_" \o sanitized ELSE sanitized, 512)

sanitize_branch_name(branch) ==
    IF ~Truthy(branch) THEN "main" ELSE FitLength(StripNameEnds(SubInvalid(branch)))

\* GitHubCollector.__init__ (the GitHub and store clients apart)
GitHubCollector(repo_name, branch) ==
    [github_repo |-> repo_name,
     branch |-> IF Truthy(branch) THEN branch ELSE "main",
     repo_safe_name |-> StrReplace(repo_name, "/", "_"),
     branch_safe_name |-> sanitize_branch_name(IF Truthy(branch) THEN branch ELSE "main"),
     chroma_dir_name |->
         "chroma_db_" \o StrReplace(repo_name, "/", "_") \o "_"
             \o sanitize_branch_name(IF Truthy(branch) THEN branch ELSE "main"),
     collection_name |->
         "context_" \o StrReplace(repo_name, "/", "_") \o "_"
             \o sanitize_branch_name(IF Truthy(branch) THEN branch ELSE "main")]

(***************************************************************************)
(* The GitHub data of the model: what collect_commits, collect_pull_       *)
(* requests, collect_issues and collect_readme hand to store_in_chromadb,  *)
(* in the order in which collect_all concatenates them.                    *)
(***************************************************************************)
\* min_length of extract_decisions
min_length == 150

\* n as two digits
Pad2(n) == IF n < 10 THEN "0" \o IntToStr(n) ELSE IntToStr(n)

CommitUrl(sha) == "https://github.com/o/r/commit/" \o sha

CommitItem(sha, message, author, files_changed) ==
    [type |-> "commit", sha |-> sha, message |-> message, author |-> author,
     date |-> "2024-05-01", url |-> CommitUrl(sha), files_changed |-> files_changed]

PullRequestItem(number, title, body, author) ==
    [type |-> "pull_request", number |-> number, title |-> title, body |-> body,
     author |-> author, state |-> "closed", created_at |-> "2024-05-02",
     updated_at |-> "2024-05-03",
     url |-> "https://github.com/o/r/pull/" \o IntToStr(number), comments |-> <<>>]

IssueItem(number, title, body, author) ==
    [type |-> "issue", number |-> number, title |-> title, body |-> body,
     author |-> author, state |-> "open", created_at |-> "2024-05-04",
     updated_at |-> "2024-05-05",
     url |-> "https://github.com/o/r/issues/" \o IntToStr(number),
     labels |-> <<"bug">>, comments |-> <<>>]

\* a body that states a decision: longer than min_length, with trigger words
\* of the categories decision and architecture, and no technology keyword
DecisionBody ==
    "We decided on this design after a long review of the service layers and how "
    \o "they talk to each other in the current release of the product line."

\* a small repository: case variants of one author, the placeholder author,
\* two commits whose shas share their first seven characters, one decision
DataSmall == <<
    CommitItem("a1b2c3d4e5", "Add cache layer using redis", "Bob",
               <<"src/cache.py", "app.js">>),
    CommitItem("a1b2c3d4f6", "Tune cache", "bob", <<"src/cache.py">>),
    CommitItem("e7f8a9b0c1", "Initial import", "Unknown", <<"README.md">>),
    CommitItem("d4c3b2a1f0", "Fix typo", "unknown", <<"README.md">>),
    PullRequestItem(1, "Cache design", "Using redis here. " \o DecisionBody, "carol"),
    IssueItem(2, "Crash on start", "It crashes.", "BOB"),
    [type |-> "readme", content |-> "Demo service", url |-> "https://github.com/o/r",
     path |-> "README.md"] >>

NumBigCommits == 31
NumBigFiles == 26
NumBigPullRequests == 19
NumAlicePullRequests == 16

\* the file the k-th commit of the large repository touches: commit k
\* touches file k, the commits after the NumBigFiles-th touch the last
\* files again, the very last first
BigFileOf(k) ==
    IF k <= NumBigFiles THEN k ELSE Max(1, (2 * NumBigFiles) + 1 - k)

BigCommit(k) ==
    CommitItem(Pad2(k) \o "c0ffee12", "Work item " \o Pad2(k), "alice",
               <<"lib/f" \o Pad2(BigFileOf(k)) \o ".py">>)

\* the k-th pull request of the large repository, each stating a decision
BigPullRequest(k) ==
    PullRequestItem(100 + k, "Proposal " \o Pad2(k),
                    (IF k % 8 = 0 THEN "Deploy with docker. " ELSE "") \o DecisionBody,
                    IF k <= NumAlicePullRequests THEN "alice" ELSE "dave")

\* a large repository: more commits, files and decisions than the node caps
DataBig ==
    [k \in 1..NumBigCommits |-> BigCommit(k)]
    \o [k \in 1..NumBigPullRequests |-> BigPullRequest(k)]

\* a row some other writer put into the collection: no metadata
NoMetaRow == [id |-> "note_1", document |-> "Deploy notes", metadata |-> NoneMeta]

RawRows == <<NoMetaRow>>

Repository == "o/r"
BranchName == "main"

RECURSIVE Repeat(_, _)
\* the string of n copies of character c
Repeat(c, n) ==
    IF n <= 0 THEN "" ELSE IF n = 1 THEN c
    ELSE Repeat(c, n \div 2) \o Repeat(c, n - (n \div 2))

\* the five categories and, of each, one of its trigger words
CategoryNames == <<"decision", "choice", "change", "strategy", "architecture">>
TriggerWords == <<"decided", "chose", "migrate", "approach", "pattern">>

\* the trigger words of the categories named, as written or capitalized
WordsOf(categories, capitalized) ==
    [i \in DOMAIN SelectSeq(CategoryNames, LAMBDA c : c \in categories) |->
        IF capitalized
        THEN StrCapitalize(TriggerWords[ListIndex(CategoryNames,
                 SelectSeq(CategoryNames, LAMBDA c : c \in categories)[i]) + 1])
        ELSE TriggerWords[ListIndex(CategoryNames,
                 SelectSeq(CategoryNames, LAMBDA c : c \in categories)[i]) + 1]]

\* s with dots appended up to length n
PadTo(s, n) == s \o Repeat(".", n - Len(s))

\* a text with trigger words of exactly the categories named, of length n
\* (as short as it comes when n is 0), together with its categories
DecisionInput(categories, capitalized, n) ==
    [text |-> PadTo("Note 7\n" \o StrJoin(WordsOf(categories, capitalized), " ") \o " ", n),
     categories |-> categories]

\* the category sets and the lengths of the texts
CategorySets ==
    (SUBSET {"decision", "choice", "architecture"})
    \cup {{"change", "strategy"}, Range(CategoryNames)}
TextLengths == {0, min_length, min_length + 1}

\* the texts and the metadata extract_decisions is called on by itself
DecisionInputs ==
    { DecisionInput(categories, capitalized, n) :
        categories \in CategorySets, capitalized \in BOOLEAN, n \in TextLengths }
DecisionTexts == { input.text : input \in DecisionInputs }
DecisionMetadatas ==
    { [type |-> type, url |-> "", author |-> "carol", date |-> "", branch |-> BranchName] :
        type \in KnownTypes }
    \cup { [author |-> "carol"] }

\* every row the store of the model can hold, and their documents, authors
\* and urls
DataRows == StoreRows(DataSmall \o DataBig, BranchName) \o RawRows
Documents == { row.document : row \in Range(DataRows) }
Authors == { DictGet(row.metadata, "author", "Unknown") : row \in Range(DataRows) }
Urls == { DictGet(row.metadata, "url", "") : row \in Range(DataRows) }

(***************************************************************************)
(* The interpreter's str hash and set iteration order.  CPython salts the  *)
(* hash of a str with a per-process seed (PYTHONHASHSEED) and iterates a   *)
(* set in the order of its hash-table slots, so the order in which         *)
(* list(a_set) and "for x in a_set" yield the elements is fixed within one *)
(* process for one set and otherwise unspecified: it depends on the seed   *)
(* and on the size of the set's table.                                     *)
(***************************************************************************)
\* the characters of the model's texts; a character's code is its position
CodeChars == " \n#,-./:<>@[]_" \o DigitChars \o UpperChars \o LowerChars

char_codes == [c \in { CharAt(CodeChars, i) : i \in 1..Len(CodeChars) } |->
                  IndexIn(c, CodeChars, 1)]

CharCode(c) == char_codes[c]

\* the pair of the concatenation of two strings of pairs a and b
HashJoin(a, b) == <<(a[1] * b[2] + b[1]) % 32768, (a[2] * b[2]) % 32768>>

RECURSIVE HashPoly(_)
\* <<v, p>> with h * p + v (mod 2^15) the result of running
\* h := h * 33 + code(c) over the characters c of s, left to right
HashPoly(s) ==
    IF s = "" THEN <<0, 1>>
    ELSE IF Len(s) = 1 THEN <<CharCode(s), 33>>
    ELSE HashJoin(HashPoly(SubSeq(s, 1, Len(s) \div 2)),
                  HashPoly(SubSeq(s, (Len(s) \div 2) + 1, Len(s))))

(***************************************************************************)
(* KnowledgeGraphBuilder: extractors                                       *)
(***************************************************************************)
\* author.lower() for the authors of the model, tabulated
author_lower_table == [a \in Authors |-> StrLower(a)]

\* normalize_author without the author_map
RawName(author_map, author, author_lower) ==
    <<author, author_map @@ (author_lower :> author)>>

\* normalize_author from "if author_lower in self.author_map" on
CanonicalAuthor(author_map, author, author_lower) ==
    IF author_lower \in DOMAIN author_map
    THEN <<author_map[author_lower], author_map>>
    ELSE <<author, author_map @@ (author_lower :> author)>>

\* normalize_author: <<returned name, author_map afterwards>>
normalize_author(author_map, author) ==
    IF ~Truthy(author) \/ author = "Unknown" THEN <<NoneVal, author_map>>
    ELSE CanonicalAuthor(author_map, author, author_lower_table[author])

tech_keywords == <<
    [name |-> "redis", variations |-> <<"redis", "redis-server", "redis-cli">>],
    [name |-> "postgres", variations |-> <<"postgres", "postgresql", "psql", "pg">>],
    [name |-> "mongodb", variations |-> <<"mongodb", "mongo", "mongoose">>],
    [name |-> "mysql", variations |-> <<"mysql", "mariadb">>],
    [name |-> "elasticsearch", variations |-> <<"elasticsearch", "elastic", "es">>],
    [name |-> "chromadb", variations |-> <<"chromadb", "chroma">>],
    [name |-> "react", variations |-> <<"react", "reactjs", "react.js">>],
    [name |-> "vue", variations |-> <<"vue", "vuejs", "vue.js">>],
    [name |-> "angular", variations |-> <<"angular", "angularjs">>],
    [name |-> "nextjs", variations |-> <<"nextjs", "next.js", "next">>],
    [name |-> "node", variations |-> <<"node", "nodejs", "node.js">>],
    [name |-> "express", variations |-> <<"express", "expressjs", "express.js">>],
    [name |-> "django", variations |-> <<"django">>],
    [name |-> "flask", variations |-> <<"flask">>],
    [name |-> "fastapi", variations |-> <<"fastapi", "fast-api">>],
    [name |-> "docker", variations |-> <<"docker", "dockerfile", "docker-compose">>],
    [name |-> "kubernetes", variations |-> <<"kubernetes", "k8s", "kubectl">>],
    [name |-> "aws", variations |-> <<"aws", "amazon-web-services">>],
    [name |-> "azure", variations |-> <<"azure", "microsoft-azure">>],
    [name |-> "gcp", variations |-> <<"gcp", "google-cloud", "google-cloud-platform">>],
    [name |-> "graphql", variations |-> <<"graphql", "gql">>],
    [name |-> "rest", variations |-> <<"rest", "restful", "rest-api">>],
    [name |-> "grpc", variations |-> <<"grpc">>],
    [name |-> "websocket", variations |-> <<"websocket", "ws">>],
    [name |-> "jwt", variations |-> <<"jwt", "json-web-token">>],
    [name |-> "oauth", variations |-> <<"oauth", "oauth2">>],
    [name |-> "auth0", variations |-> <<"auth0">>],
    [name |-> "firebase", variations |-> <<"firebase">>],
    [name |-> "webpack", variations |-> <<"webpack">>],
    [name |-> "vite", variations |-> <<"vite", "vitejs">>],
    [name |-> "babel", variations |-> <<"babel", "babeljs">>],
    [name |-> "typescript", variations |-> <<"typescript", "ts">>],
    [name |-> "javascript", variations |-> <<"javascript", "js">>],
    [name |-> "python", variations |-> <<"python", "py">>],
    [name |-> "huggingface", variations |-> <<"huggingface", "hugging-face", "hf">>],
    [name |-> "gemini", variations |-> <<"gemini", "google-gemini">>],
    [name |-> "slack", variations |-> <<"slack">>],
    [name |-> "github", variations |-> <<"github", "gh">>],
    [name |-> "notion", variations |-> <<"notion">>],
    [name |-> "tailwind", variations |-> <<"tailwind", "tailwindcss">>],
    [name |-> "bootstrap", variations |-> <<"bootstrap">>],
    [name |-> "kestra", variations |-> <<"kestra">> ] >>

file_extensions == <<
    <<".py", "Python">>, <<".js", "Javascript">>, <<".ts", "Typescript">>,
    <<".jsx", "React">>, <<".tsx", "React">>, <<".vue", "Vue">>, <<".go", "Go">>,
    <<".java", "Java">>, <<".rb", "Ruby">>, <<".php", "Php">>, <<".rs", "Rust">> >>

valid_indicators == <<
    "using", "with", "implement", "add", "update", "fix",
    "install", "upgrade", "migrate", "integrate", "configure",
    "setup", "deploy", "build", "run", "start", "stop" >>

\* the regex \b<keyword>\b matches text at position i (keyword begins and
\* ends with a word character)
WordMatchAt(text, keyword, i) ==
    /\ MatchAt(text, keyword, i)
    /\ (i = 1 \/ ~IsWordChar(CharAt(text, i - 1)))
    /\ (i + Len(keyword) - 1 = Len(text) \/ ~IsWordChar(CharAt(text, i + Len(keyword))))

RECURSIVE WordMatches(_, _, _)
\* the matches from the occurrence of keyword at position p on (0: none)
WordMatchesAt(text, keyword, p) ==
    IF p = 0 THEN <<>>
    ELSE IF WordMatchAt(text, keyword, p)
         THEN <<p>> \o WordMatches(text, keyword, p + Len(keyword))
         ELSE WordMatches(text, keyword, p + 1)

\* re.finditer(r'\b' + re.escape(keyword) + r'\b', text): the start positions
\* of the non-overlapping matches at or after position i
WordMatches(text, keyword, i) == WordMatchesAt(text, keyword, FindFrom(text, keyword, i))

\* text[max(0, start - k) : min(len(text), end + k)] around the match of
\* keyword at position p
Around(text, keyword, p, k) ==
    SubSeq(text, Max(1, p - k), Min(Len(text), p + Len(keyword) - 1 + k))

\* a rule under which an action verb anywhere in the text prevents the
\* discard
FalsePositiveUnlessVerbAnywhere(text, keyword, matches) ==
    IF matches = <<>> THEN FALSE
    ELSE IF \E j \in DOMAIN valid_indicators : StrContains(text, valid_indicators[j])
         THEN FALSE
    ELSE IF \A m \in DOMAIN matches :
                StrContains(SubSeq(text, Max(1, matches[m] - 10),
                                   Min(Len(text), matches[m] + Len(keyword) - 1 + 10)), "/")
         THEN TRUE
    ELSE FALSE

\* is_false_positive_context over the matches named
FalsePositive(text, keyword, matches) ==
    IF matches = <<>> THEN FALSE
    ELSE IF \E m \in DOMAIN matches : \E j \in DOMAIN valid_indicators :
                StrContains(Around(text, keyword, matches[m], 20), valid_indicators[j])
         THEN FALSE
    ELSE IF \A m \in DOMAIN matches :
                StrContains(Around(text, keyword, matches[m], 10), "/")
         THEN TRUE
    ELSE FALSE

is_false_positive_context(text, keyword) ==
    FalsePositive(text, keyword, WordMatches(text, keyword, 1))

\* "if re.search(pattern, text_lower)" and "not is_false_positive_context"
\* over the matches of the variation
VariationDetected(text_lower, variation, matches) ==
    matches # <<>> /\ ~FalsePositive(text_lower, variation, matches)

\* the inner loop of extract_modules for one technology: some variation
\* matches as a whole word and is not a false positive
TechDetected(text_lower, variations) ==
    \E v \in DOMAIN variations :
        VariationDetected(text_lower, variations[v],
                          WordMatches(text_lower, variations[v], 1))

\* the modules of a lower-cased text
ModulesOf(text_lower, keywords) ==
    { StrCapitalize(keywords[t].name) :
          t \in { u \in DOMAIN keywords :
                    TechDetected(text_lower, keywords[u].variations) } }
    \cup
    { file_extensions[e][2] :
          e \in { f \in DOMAIN file_extensions :
                    StrContains(text_lower, file_extensions[f][1]) } }

extract_modules(text) ==
    IF ~Truthy(text) THEN {} ELSE ModulesOf(StrLower(text), tech_keywords)

\* the regex classes of extract_files_from_text
IsPathChar(c) == IsAlnum(c) \/ c = "_" \/ c = "-"
IsBefore(c) == IsSpace(c) \/ c = "\"" \/ c = "'"
IsAfter(c) == IsSpace(c) \/ c \in {",", ";", "\"", "'"}

RECURSIVE RunEnd(_, _, _)
\* the last position of the longest run of characters satisfying In that
\* starts at position i of text (i - 1 when the run is empty)
RunEnd(text, In(_), i) ==
    IF i <= Len(text) /\ In(CharAt(text, i)) THEN RunEnd(text, In, i + 1) ELSE i - 1

\* the end of a match whose extension [a-zA-Z0-9]+ starts at position x and
\* runs to position e
ExtensionEnd(text, x, e) ==
    IF e < x THEN 0
    ELSE IF e = Len(text) \/ IsAfter(CharAt(text, e + 1)) THEN e
    ELSE 0

RECURSIVE FileTokenEnd(_, _)
\* the end of a match of which a run [a-zA-Z0-9_-]* starts at position t and
\* runs to position r
PathEnd(text, t, r) ==
    IF r < t \/ r = Len(text) THEN 0
    ELSE IF CharAt(text, r + 1) = "/" THEN FileTokenEnd(text, r + 2)
    ELSE IF CharAt(text, r + 1) = "."
         THEN ExtensionEnd(text, r + 2, RunEnd(text, IsAlnum, r + 2))
    ELSE 0

\* the last position of a match of
\*   (?:[a-zA-Z0-9_-]+/)*[a-zA-Z0-9_-]+\.[a-zA-Z0-9]+(?=[\s,;"']|$)
\* that starts at position t of text, 0 when there is none
FileTokenEnd(text, t) == PathEnd(text, t, RunEnd(text, IsPathChar, t))

\* where the path of a match that the scan tries at position pos starts:
\* at pos itself for ^, after the one character [\s"'] otherwise; 0 when
\* the pattern does not match at pos
FileMatchStart(text, pos) ==
    IF pos = 1 /\ FileTokenEnd(text, 1) # 0 THEN 1
    ELSE IF IsBefore(CharAt(text, pos)) /\ FileTokenEnd(text, pos + 1) # 0 THEN pos + 1
    ELSE 0

RECURSIVE FindFiles(_, _)
\* the match that starts at position t and ends at position e, then the
\* matches of the scan resumed
FileAndRest(text, t, e) == <<SubSeq(text, t, e)>> \o FindFiles(text, e + 2)

\* the matches from the one whose path starts at position t on (0: none)
FilesFrom(text, t) ==
    IF t = 0 THEN <<>> ELSE FileAndRest(text, t, FileTokenEnd(text, t))

\* re.findall of the file-path pattern, scanning from position pos: the
\* leftmost match, then the scan resumes after the character that ended it
FindFiles(text, pos) ==
    FilesFrom(text, FirstOf({ FileMatchStart(text, q) : q \in pos..Len(text) } \ {0}))

extract_files_from_text(text) ==
    IF ~Truthy(text) THEN {} ELSE Range(FindFiles(text, 1))

decision_indicators == <<
    [category |-> "decision", keywords |-> <<"decided", "decision", "conclude", "conclusion">>],
    [category |-> "choice", keywords |-> <<"chose", "choose", "selected", "select", "pick", "opt">>],
    [category |-> "change", keywords |-> <<"switch", "migrate", "refactor", "redesign", "rewrite">>],
    [category |-> "strategy", keywords |-> <<"approach", "strategy", "plan", "methodology">>],
    [category |-> "architecture", keywords |-> <<"architecture", "design", "pattern", "structure">>] >>

\* the categories with a keyword occurring in text_lower
MatchedCategories(text_lower) ==
    { decision_indicators[c].category :
        c \in { d \in DOMAIN decision_indicators :
                  \E k \in DOMAIN decision_indicators[d].keywords :
                      StrContains(text_lower, decision_indicators[d].keywords[k]) } }

\* [line.strip() for line in text.split('\n') if line.strip()]
Stripped(lines) == [i \in DOMAIN lines |-> StrStrip(lines[i])]
NonBlankLines(text) == SelectSeq(Stripped(StrSplit(text, "\n")), LAMBDA l : l # "")

\* lines[0][:80] if lines else fallback
FirstLine(lines, fallback) == IF lines # <<>> THEN Prefix(lines[1], 80) ELSE fallback

\* the title of a decision label: the first non-blank line, 80 characters
\* of it at most
DecisionTitle(text, fallback) == FirstLine(NonBlankLines(text), fallback)

\* the label made of a title and the sequence of the categories matched
LabelText(prefix, title, categories) ==
    prefix \o title \o " [" \o StrJoin(categories, ", ") \o "]"

\* the set of files of the 'Files: ' trailer of a commit document
FilesOfTrailer(doc) ==
    IF StrContains(doc, "Files: ")
    THEN Range(Stripped(StrSplit(Last(StrSplit(doc, "Files: ")), ","))) \ {""}
    ELSE {}

files_in_commit(doc) == FilesOfTrailer(doc) \cup extract_files_from_text(doc)

(***************************************************************************)
(* The extractors' results on the documents of the model, tabulated: each  *)
(* extractor is a pure function of the document text.                      *)
(***************************************************************************)
extract_modules_table == [d \in Documents |-> extract_modules(d)]
files_in_commit_table == [d \in Documents |-> files_in_commit(d)]
matched_categories_table ==
    [d \in Documents \cup DecisionTexts |-> MatchedCategories(StrLower(d))]
pr_title_table == [d \in Documents \cup DecisionTexts |-> DecisionTitle(d, "PR Decision")]
issue_title_table ==
    [d \in Documents \cup DecisionTexts |-> DecisionTitle(d, "Issue Decision")]

\* the orders in which the elements of S can be listed
Orders(S) ==
    { f \in [1..Cardinality(S) -> S] : \A i, j \in DOMAIN f : i # j => f[i] # f[j] }

\* every label extract_decisions can make of a document of the titles and
\* categories named
PossibleLabels(pr_title, issue_title, matched_categories) ==
    IF Cardinality(matched_categories) < 2 THEN {}
    ELSE UNION { { LabelText("PR: ", pr_title, categories),
                   LabelText("Issue: ", issue_title, categories) } :
                 categories \in Orders(matched_categories) }

\* the strings the builder puts into sets (or hashes) over the documents of
\* the model
HashedStrings ==
    Authors \cup {NoneVal}
    \cup { decision_indicators[c].category : c \in DOMAIN decision_indicators }
    \cup UNION { extract_modules_table[d] \cup files_in_commit_table[d]
                   \cup PossibleLabels(pr_title_table[d], issue_title_table[d],
                                       matched_categories_table[d]) :
                 d \in Documents }

\* the seeds of str hashing of the model's processes
HashSeeds == {3, 7}

\* hash(s) in a process of the seed named
PyHash(s, seed) == (seed * HashPoly(s)[2] + HashPoly(s)[1]) % 32768

\* hash, for each seed, over the strings of the model
str_hash == [seed \in HashSeeds |-> [s \in HashedStrings |-> PyHash(s, seed)]]

\* the size of the hash table of a set grown to n elements
SetTableSize(n) == IF n < 5 THEN 8 ELSE IF n < 19 THEN 32 ELSE IF n < 77 THEN 128 ELSE 512

\* a precedes b in the order of the character codes
StrLess(a, b) ==
    \E i \in 1..(Min(Len(a), Len(b)) + 1) :
        /\ SubSeq(a, 1, i - 1) = SubSeq(b, 1, i - 1)
        /\ i <= Len(b)
        /\ (i > Len(a) \/ CharCode(CharAt(a, i)) < CharCode(CharAt(b, i)))

\* the entry of element x in a hash table of the size named: <<slot, hash, x>>
SlotEntry(x, h, size) == <<h % size, h, x>>

\* entry a is met before entry b when the table is walked; elements of equal
\* hash in the order of their characters
SlotBefore(a, b) ==
    \/ a[1] < b[1]
    \/ (a[1] = b[1] /\ a[2] < b[2])
    \/ (a[1] = b[1] /\ a[2] = b[2] /\ StrLess(a[3], b[3]))

\* entry p put at its place in the sorted sequence of entries
InsertEntry(sorted, p) ==
    SelectSeq(sorted, LAMBDA e : SlotBefore(e, p)) \o <<p>>
      \o SelectSeq(sorted, LAMBDA e : ~SlotBefore(e, p))

RECURSIVE BySlot(_)
\* the entries of a set, in the order the table is walked
BySlot(entries) ==
    IF entries = {} THEN <<>>
    ELSE InsertEntry(BySlot(entries \ {CHOOSE q \in entries : TRUE}),
                     CHOOSE q \in entries : TRUE)

\* the elements of a sequence of entries
Elements(entries) == [i \in DOMAIN entries |-> entries[i][3]]

\* list(S) for a set S of str: the iteration order of the set under the
\* process's hash
PySetList(S, hash) ==
    Elements(BySlot({ SlotEntry(x, hash[x], SetTableSize(Cardinality(S))) : x \in S }))

(***************************************************************************)
(* KnowledgeGraphBuilder.extract_decisions                                 *)
(***************************************************************************)
DecisionLabel(prefix, title, matched_categories, hash) ==
    LabelText(prefix, title, PySetList(matched_categories, hash))

\* the gate with "at least min_length characters"
ScoredDecisionsAtLeast(text, doc_type, matched_categories, hash) ==
    IF Cardinality(matched_categories) >= 2 /\ Len(text) >= min_length
    THEN IF doc_type = "pull_request"
         THEN <<DecisionLabel("PR: ", pr_title_table[text], matched_categories, hash)>>
         ELSE IF doc_type = "issue"
         THEN <<DecisionLabel("Issue: ", issue_title_table[text], matched_categories, hash)>>
         ELSE <<>>
    ELSE <<>>

\* the decisions of a text of the categories named
ScoredDecisions(text, doc_type, matched_categories, hash) ==
    IF Cardinality(matched_categories) >= 2 /\ Len(text) > min_length
    THEN IF doc_type = "pull_request"
         THEN <<DecisionLabel("PR: ",
                              pr_title_table[text],
                              matched_categories, hash)>>
         ELSE IF doc_type = "issue"
         THEN <<DecisionLabel("Issue: ",
                              issue_title_table[text],
                              matched_categories, hash)>>
         ELSE <<>>
    ELSE <<>>

\* extract_decisions; hash is the str hash of the process, which fixes the
\* iteration order of the matched_categories set
extract_decisions(text, metadata, hash) ==
    IF ~Truthy(text) THEN <<>>
    ELSE ScoredDecisions(text, DictGet(metadata, "type", "unknown"),
                         matched_categories_table[text],
                         hash)

(***************************************************************************)
(* Floats.  Every float the builder computes has the form                  *)
(* m * (1.0 + math.log(1 + n)) with m one of the multipliers of a fixed    *)
(* table and n a count; it is kept as the pair of m in tenths and n.       *)
(***************************************************************************)
LogScaled(tenths, n) == [tenths |-> tenths, n |-> n]

\* a table in which every relationship type has the base multiplier
EqualWeights(relationship_type) == 10

\* type_weights.get(relationship_type, 1.0), in tenths
type_weights(relationship_type) ==
    CASE relationship_type = "authored" -> 20
      [] relationship_type = "contributed" -> 15
      [] relationship_type = "modified" -> 15
      [] relationship_type = "uses" -> 12
      [] relationship_type = "decided" -> 18
      [] relationship_type = "related" -> 10
      [] OTHER -> 10

calculate_relationship_weight(source, target, interaction_count, relationship_type) ==
    LogScaled(type_weights(relationship_type), interaction_count)

\* math.log(1 + n) for n = 0, 1, ..., 25, in millionths, rounded down
LnMillionths ==
    << 0, 693147, 1098612, 1386294, 1609437, 1791759, 1945910, 2079441, 2197224,
       2302585, 2397895, 2484906, 2564949, 2639057, 2708050, 2772588, 2833213,
       2890371, 2944438, 2995732, 3044522, 3091042, 3135494, 3178053, 3218875,
       3258096 >>

\* the float m * (1.0 + math.log(1 + n)) in ten-millionths; two floats of
\* this form with n up to 25 compare as these integers do
FloatValue(scaled) == scaled.tenths * (1000000 + LnMillionths[scaled.n + 1])

\* type_importance.get(node_type, 1.0), in tenths
type_importance(node_type) ==
    CASE node_type = "person" -> 15
      [] node_type = "file" -> 13
      [] node_type = "commit" -> 10
      [] node_type = "module" -> 14
      [] node_type = "decision" -> 12
      [] OTHER -> 10

compute_node_importance(node_id, connections, node_type) ==
    LogScaled(type_importance(node_type), connections)

(***************************************************************************)
(* Python dict: the sequence of its <<key, value>> items in insertion      *)
(* order, keys unique.                                                     *)
(***************************************************************************)
DictHas(d, k) == \E i \in DOMAIN d : d[i][1] = k
DictAt(d, k) == d[CHOOSE i \in DOMAIN d : d[i][1] = k][2]
DictGetOr(d, k, default) == IF DictHas(d, k) THEN DictAt(d, k) ELSE default
\* the items of d with the i-th replaced by <<k, v>>
DictReplace(d, i, k, v) == SubSeq(d, 1, i - 1) \o <<<<k, v>>>> \o SubSeq(d, i + 1, Len(d))
\* d[k] = v
DictPut(d, k, v) ==
    IF DictHas(d, k)
    THEN DictReplace(d, CHOOSE j \in DOMAIN d : d[j][1] = k, k, v)
    ELSE Append(d, <<k, v>>)
DictValues(d) == [i \in DOMAIN d |-> d[i][2]]

\* d[k].add(x) for each x of xs, in order, on a defaultdict(set)
DictAddAll(d, k, xs) ==
    IF xs = <<>> THEN d ELSE DictPut(d, k, DictGetOr(d, k, {}) \cup Range(xs))

(***************************************************************************)
(* KnowledgeGraphBuilder.build_graph                                       *)
(***************************************************************************)
\* branch or "main"
BranchOrMain(branch) == IF Truthy(branch) THEN branch ELSE "main"

\* KnowledgeGraphBuilder.__init__ (the store client apart)
KnowledgeGraphBuilder(repo_name, branch) ==
    [repo_name |-> StrReplace(repo_name, "/", "_"),
     raw_repo_name |-> repo_name,
     branch |-> BranchOrMain(branch),
     branch_safe_name |->
         StrReplace(StrReplace(StrReplace(BranchOrMain(branch), "/", "_"), "^", "_"),
                    "~", "_"),
     nodes |-> <<>>, links |-> <<>>, people |-> {}, modules |-> {}, decisions |-> {},
     commits |-> <<>>, files |-> <<>>, author_map |-> <<>>,
     stats |-> [people |-> 0, modules |-> 0, decisions |-> 0, commits |-> 0, files |-> 0]]

\* the local relationship maps of one build_graph call (commit_to_files and
\* file_contributors are written and never read; they are left out)
NewLocals ==
    [person_to_modules |-> <<>>, person_to_decisions |-> <<>>,
     person_to_commits |-> <<>>, person_to_files |-> <<>>,
     module_to_decisions |-> <<>>]

\* doc.split('\n')[0].replace('Commit: ', '')
CommitMessage(doc) == StrReplace(StrSplit(doc, "\n")[1], "Commit: ", "")

\* url.split('/')[-1]
UrlTail(url) == Last(StrSplit(url, "/"))

commit_message_table == [d \in Documents \ {NoneVal} |-> CommitMessage(d)]
url_tail_table == [u \in Urls |-> UrlTail(u)]

\* the commit_data dict of the values named
CommitRecord(commit_sha, commit_message, metadata, author, files) ==
    [sha |-> Prefix(commit_sha, 7),
     full_sha |-> commit_sha,
     message |-> Prefix(commit_message, 100),
     author |-> author,
     date |-> DictGet(metadata, "date", ""),
     url |-> DictGet(metadata, "url", ""),
     files |-> files]

\* commit_sha of the i-th document (i counts from 0)
CommitSha(i, url) ==
    IF Truthy(url) THEN url_tail_table[url]
    ELSE "commit_" \o IntToStr(i)

\* commit_data of the i-th document
CommitData(i, doc, metadata, author, hash) ==
    CommitRecord(CommitSha(i, DictGet(metadata, "url", NoneVal)),
                 IF Truthy(doc)
                 THEN commit_message_table[doc]
                 ELSE "Unknown commit",
                 metadata, author,
                 PySetList(files_in_commit_table[doc], hash))

\* self.files[file_path] with one more contributor and commit
TrackedFile(old, author, commit_sha) ==
    [old EXCEPT !.contributors = @ \cup {author}, !.commits = Append(@, commit_sha)]

RECURSIVE TrackFiles(_, _, _, _)
\* the loop "for file_path in files_in_commit" over self.files
TrackFiles(files, paths, author, commit_sha) ==
    IF paths = <<>> THEN files
    ELSE TrackFiles(DictPut(files, Head(paths),
                            TrackedFile(DictGetOr(files, Head(paths),
                                                  [path |-> Head(paths),
                                                   contributors |-> {},
                                                   commits |-> <<>>]),
                                        author, commit_sha)),
                    Tail(paths), author, commit_sha)

RECURSIVE AddToEach(_, _, _)
\* for k in keys: d[k].add(x) for each x of xs
AddToEach(d, keys, xs) ==
    IF keys = <<>> THEN d ELSE AddToEach(DictAddAll(d, Head(keys), xs), Tail(keys), xs)

\* the builder after the author, modules and decisions of a document are
\* added to its sets; norm is the result of normalize_author
TrackSets(self, norm, modules, decisions) ==
    [self EXCEPT
       !.author_map = norm[2],
       !.people = IF Truthy(norm[1]) THEN @ \cup {norm[1]} ELSE @,
       !.modules = @ \cup modules,
       !.decisions = @ \cup Range(decisions)]

\* the builder after the commit is appended and its files are tracked
TrackCommit(self, author, commit_data) ==
    [self EXCEPT
       !.commits = Append(@, commit_data),
       !.files = TrackFiles(@, commit_data.files, author, commit_data.full_sha)]

\* person_to_commits[author].append(commit_data)
RelateCommit(loc, author, commit_data) ==
    IF Truthy(author)
    THEN [loc EXCEPT !.person_to_commits =
            DictPut(@, author, Append(DictGetOr(@, author, <<>>), commit_data))]
    ELSE loc

\* "Build relationships for all doc types"
Relate(loc, author, module_list, decisions) ==
    [loc EXCEPT
       !.person_to_modules = IF Truthy(author) THEN DictAddAll(@, author, module_list)
                             ELSE @,
       !.person_to_decisions = IF Truthy(author) THEN DictAddAll(@, author, decisions)
                               ELSE @,
       !.module_to_decisions = IF decisions = <<>> THEN @
                               ELSE AddToEach(@, module_list, decisions)]

\* the commit branch of the loop body; self has the document's sets tracked
ProcessCommit(st, self, doc, author, commit_data, module_list, decisions) ==
    IF doc = NoneVal
    THEN [st EXCEPT !.self = self,
                    !.error = "argument of type 'NoneType' is not iterable"]
    ELSE [st EXCEPT !.self = TrackCommit(self, author, commit_data),
                    !.loc = Relate(RelateCommit(st.loc, author, commit_data),
                                   author, module_list, decisions)]

\* the loop body after the extractors ran
ProcessExtracted(st, i, doc, metadata, hash, norm, modules, decisions) ==
    IF DictGet(metadata, "type", "unknown") = "commit"
    THEN ProcessCommit(st, TrackSets(st.self, norm, modules, decisions), doc, norm[1],
                       CommitData(i, doc, metadata, norm[1], hash),
                       PySetList(modules, hash), decisions)
    ELSE [st EXCEPT !.self = TrackSets(st.self, norm, modules, decisions),
                    !.loc = Relate(st.loc, norm[1], PySetList(modules, hash), decisions)]

\* One iteration of the document loop on st = [self, loc, error]: self is
\* the builder, loc the local maps, error the message of the exception
\* raised so far ("" for none).
ProcessDocument(st, i, doc, metadata, hash) ==
    IF IsNoneMeta(metadata)
    THEN [st EXCEPT !.error = "'NoneType' object has no attribute 'get'"]
    ELSE ProcessExtracted(st, i, doc, metadata, hash,
                          normalize_author(st.self.author_map,
                                           DictGet(metadata, "author", "Unknown")),
                          extract_modules_table[doc],
                          extract_decisions(doc, metadata, hash))

RECURSIVE ProcessDocuments(_, _, _, _, _)
\* the loop over enumerate(zip(documents, metadatas)) for the indices
\* from..to (counted from 0); it ends at the first exception
ProcessDocuments(st, rows, from, to, hash) ==
    IF from > to \/ st.error # "" THEN st
    ELSE IF from = to
    THEN ProcessDocument(st, from, rows[from + 1].document, rows[from + 1].metadata, hash)
    ELSE ProcessDocuments(ProcessDocuments(st, rows, from, (from + to) \div 2, hash),
                          rows, ((from + to) \div 2) + 1, to, hash)

\* seq[:n]
SeqPrefix(seq, n) == SubSeq(seq, 1, Min(n, Len(seq)))

RECURSIVE Concat(_)
\* the concatenation of a sequence of sequences
Concat(seqs) ==
    IF seqs = <<>> THEN <<>>
    ELSE IF Len(seqs) = 1 THEN seqs[1]
    ELSE Concat(SubSeq(seqs, 1, Len(seqs) \div 2))
           \o Concat(SubSeq(seqs, (Len(seqs) \div 2) + 1, Len(seqs)))

RECURSIVE PutNodes(_, _)
\* self.nodes[node["id"]] = node for each node of new, in order
PutNodes(nodes, new) ==
    IF new = <<>> \/ nodes = <<<<>>>> THEN nodes
    ELSE IF Len(new) = 1 THEN DictPut(nodes, new[1].id, new[1])
    ELSE PutNodes(PutNodes(nodes, SubSeq(new, 1, Len(new) \div 2)),
                  SubSeq(new, (Len(new) \div 2) + 1, Len(new)))

MaxDecisionNodes == 15
MaxCommitNodes == 30
MaxFileNodes == 25

\* list(self.decisions)[:15]
CappedDecisions(decisions, hash) == SeqPrefix(PySetList(decisions, hash), MaxDecisionNodes)

\* self.commits without the cap
AllCommits(commits) == commits

\* self.commits[:30]
CappedCommits(commits) == SeqPrefix(commits, MaxCommitNodes)

\* max(len(x[1]['commits']) for x in items)
MostCommits(items) ==
    CHOOSE n \in { Len(items[i][2].commits) : i \in DOMAIN items } :
        \A i \in DOMAIN items : Len(items[i][2].commits) <= n

\* the items of n commits first, in their order, then the others
MostFirst(items, n) ==
    <<SelectSeq(items, LAMBDA it : Len(it[2].commits) = n),
      SelectSeq(items, LAMBDA it : Len(it[2].commits) # n)>>

RECURSIVE SortedByCommits(_)
\* sorted(items, key=lambda x: len(x[1]['commits']), reverse=True): a stable
\* sort, items with equally many commits keep their order
SortedByCommits(items) ==
    IF items = <<>> THEN <<>>
    ELSE MostFirst(items, MostCommits(items))[1]
           \o SortedByCommits(MostFirst(items, MostCommits(items))[2])

\* sorted_files: the top 25 most-changed files
SortedFiles(files) == SeqPrefix(SortedByCommits(files), MaxFileNodes)

\* f"file-{hash(file_path) % 100000}"
FileId(file_path, hash) == "file-" \o IntToStr(hash[file_path] % 100000)

PersonNode(person, loc) ==
    [id |-> "person-" \o person, group |-> 1, label |-> "@" \o person, type |-> "person",
     commits |-> Len(DictGetOr(loc.person_to_commits, person, <<>>)),
     files |-> Cardinality(DictGetOr(loc.person_to_files, person, {}))]

ModuleNode(module) ==
    [id |-> "module-" \o module, group |-> 2, label |-> module, type |-> "module"]

DecisionNode(i, decision) ==
    [id |-> "decision-" \o IntToStr(i), group |-> 3,
     label |-> IF Len(decision) > 60 THEN Prefix(decision, 60) \o "..." ELSE decision,
     type |-> "decision", full_text |-> decision]

CommitNode(commit) ==
    [id |-> "commit-" \o commit.sha, group |-> 4,
     label |-> commit.sha \o ": " \o Prefix(commit.message, 40),
     type |-> "commit", sha |-> commit.sha, full_sha |-> commit.full_sha,
     message |-> commit.message, date |-> commit.date, url |-> commit.url,
     files_count |-> Len(commit.files)]

\* file_path.split('/')[-1] if '/' in file_path else file_path
FileName(file_path) ==
    IF StrContains(file_path, "/") THEN Last(StrSplit(file_path, "/")) ELSE file_path

\* filename.split('.')[-1] if '.' in filename else ''
FileExtension(filename) ==
    IF StrContains(filename, ".") THEN Last(StrSplit(filename, ".")) ELSE ""

FileNode(file_path, file_data, hash) ==
    [id |-> FileId(file_path, hash), group |-> 5, label |-> FileName(file_path),
     type |-> "file", path |-> file_path,
     extension |-> FileExtension(FileName(file_path)),
     contributors |-> Cardinality(file_data.contributors),
     commits |-> Len(file_data.commits)]

\* the nodes of the lists named, in the order build_graph creates them
NewNodes(people, modules, decisions, commits, sorted_files, loc, hash) ==
    [i \in DOMAIN people |-> PersonNode(people[i], loc)]
      \o [i \in DOMAIN modules |-> ModuleNode(modules[i])]
      \o [i \in DOMAIN decisions |-> DecisionNode(i - 1, decisions[i])]
      \o [i \in DOMAIN commits |-> CommitNode(commits[i])]
      \o [i \in DOMAIN sorted_files |->
            FileNode(sorted_files[i][1], sorted_files[i][2], hash)]

\* the node-creation part of build_graph: self.nodes afterwards
CreateNodes(self, loc, hash) ==
    PutNodes(self.nodes,
             NewNodes(PySetList(self.people, hash), PySetList(self.modules, hash),
                      CappedDecisions(self.decisions, hash), CappedCommits(self.commits),
                      SortedFiles(self.files), loc, hash))

Link(source, target, interaction_count, type) ==
    [source |-> source, target |-> target,
     value |-> calculate_relationship_weight(source, target, interaction_count, type),
     type |-> type]

\* the links of one kind from source to the targets named, in order
LinksTo(source, targets, type) ==
    [t \in DOMAIN targets |-> Link(source, targets[t], 1, type)]

\* the node ids of the names of the sequence named
Ids(prefix, names) == [n \in DOMAIN names |-> prefix \o names[n]]

\* Person -> Module
UsesLinks(loc, hash) ==
    Concat([p \in DOMAIN loc.person_to_modules |->
        LinksTo("person-" \o loc.person_to_modules[p][1],
                Ids("module-", PySetList(loc.person_to_modules[p][2], hash)),
                "uses")])

\* link creation that leaves out the test against list(self.decisions)[:15]
UncappedIn(decisions, all_decisions) == decisions

\* the decisions of the sequence named that are in all_decisions[:15]
CappedIn(decisions, all_decisions) ==
    SelectSeq(decisions,
              LAMBDA d : d \in Range(SeqPrefix(all_decisions, MaxDecisionNodes)))

\* f"decision-{list(self.decisions).index(decision)}" for each decision
DecisionIds(decisions, all_decisions) ==
    [k \in DOMAIN decisions |->
        "decision-" \o IntToStr(ListIndex(all_decisions, decisions[k]))]

\* the links from source to the decisions of the sequence named, each
\* resolved against all_decisions = list(self.decisions): a decision gets a
\* link if it is in all_decisions[:15], to the node of its index
DecisionLinks(source, decisions, all_decisions, type) ==
    LinksTo(source, DecisionIds(CappedIn(decisions, all_decisions), all_decisions), type)

\* Person -> Decision, all_decisions being list(self.decisions)
DecidedLinks(loc, all_decisions, hash) ==
    Concat([p \in DOMAIN loc.person_to_decisions |->
        DecisionLinks("person-" \o loc.person_to_decisions[p][1],
                      SeqPrefix(PySetList(loc.person_to_decisions[p][2], hash),
                                MaxDecisionNodes),
                      all_decisions, "decided")])

\* Module -> Decision, all_decisions being list(self.decisions)
RelatedLinks(loc, all_decisions, hash) ==
    Concat([m \in DOMAIN loc.module_to_decisions |->
        DecisionLinks("module-" \o loc.module_to_decisions[m][1],
                      PySetList(loc.module_to_decisions[m][2], hash),
                      all_decisions, "related")])

\* the commits of the sequence named that have a node
WithNode(nodes, commits) ==
    SelectSeq(commits, LAMBDA c : DictHas(nodes, "commit-" \o c.sha))

\* the links of one person to the commits named, of which count are theirs
PersonCommitLinks(person, commits, count) ==
    [c \in DOMAIN commits |->
        Link("person-" \o person, "commit-" \o commits[c].sha, count, "authored")]

\* Person -> Commit
AuthoredLinks(nodes, loc) ==
    Concat([p \in DOMAIN loc.person_to_commits |->
        PersonCommitLinks(loc.person_to_commits[p][1],
                          WithNode(nodes, SeqPrefix(loc.person_to_commits[p][2],
                                                    MaxCommitNodes)),
                          Len(loc.person_to_commits[p][2]))])

\* the files of a commit that are in sorted_files and have a node
ShownFiles(files, sorted_files, nodes, hash) ==
    SelectSeq(files, LAMBDA f : /\ DictHas(sorted_files, f)
                                /\ DictHas(nodes, FileId(f, hash)))

\* the links of the commits named to their files
CommitFileLinks(commits, sorted_files, nodes, hash) ==
    Concat([c \in DOMAIN commits |->
        LinksTo("commit-" \o commits[c].sha,
                [f \in DOMAIN ShownFiles(commits[c].files, sorted_files, nodes, hash) |->
                    FileId(ShownFiles(commits[c].files, sorted_files, nodes, hash)[f],
                           hash)],
                "modified")])

\* Commit -> File
ModifiedLinks(self, nodes, hash) ==
    CommitFileLinks(WithNode(nodes, CappedCommits(self.commits)),
                    SortedFiles(self.files), nodes, hash)

\* how many of the commits of a file are among the person's commits
ContributionCount(file_commits, person_commits) ==
    Cardinality({ k \in DOMAIN file_commits :
                    file_commits[k] \in { person_commits[j].full_sha :
                                            j \in DOMAIN person_commits } })

\* the links of the contributors named to the file
FileContributorLinks(file_id, file_data, contributors, loc) ==
    [c \in DOMAIN contributors |->
        Link("person-" \o contributors[c], file_id,
             ContributionCount(file_data.commits,
                               DictGetOr(loc.person_to_commits, contributors[c], <<>>)),
             "contributed")]

\* the links of the contributors of the files named
FilesContributorLinks(sorted_files, loc, hash) ==
    Concat([f \in DOMAIN sorted_files |->
        FileContributorLinks(FileId(sorted_files[f][1], hash), sorted_files[f][2],
                             SelectSeq(PySetList(sorted_files[f][2].contributors, hash),
                                       Truthy),
                             loc)])

\* Person -> File
ContributedLinks(self, nodes, loc, hash) ==
    FilesContributorLinks(SelectSeq(SortedFiles(self.files),
                                    LAMBDA it : DictHas(nodes, FileId(it[1], hash))),
                          loc, hash)

\* the link-creation part of build_graph: self.links afterwards
CreateLinks(self, nodes, loc, hash) ==
    self.links \o UsesLinks(loc, hash)
      \o DecidedLinks(loc, PySetList(self.decisions, hash), hash)
      \o RelatedLinks(loc, PySetList(self.decisions, hash), hash)
      \o AuthoredLinks(nodes, loc)
      \o ModifiedLinks(self, nodes, hash) \o ContributedLinks(self, nodes, loc, hash)

\* how many links of the sequence begin at the node
OutgoingConnections(node_id, links) ==
    Cardinality({ l \in DOMAIN links : links[l].source = node_id })

\* how many links of the sequence begin or end at the node
Connections(node_id, links) ==
    Cardinality({ l \in DOMAIN links :
                    links[l].source = node_id \/ links[l].target = node_id })

\* the node with its importance and connections set
Scored(node_id, node_data, connections) ==
    [k \in DOMAIN node_data \cup {"importance", "connections"} |->
        IF k = "importance"
        THEN compute_node_importance(node_id, connections, node_data.type)
        ELSE IF k = "connections" THEN connections
        ELSE node_data[k]]

\* importance and connections of every node of self.nodes over self.links
ScoreNodes(nodes, links) ==
    [i \in DOMAIN nodes |->
        <<nodes[i][1], Scored(nodes[i][1], nodes[i][2], Connections(nodes[i][1], links))>>]

\* an except branch that returns what the builder holds
PartialPayload(self, message) ==
    [nodes |-> DictValues(self.nodes), links |-> self.links, error |-> message,
     branch |-> self.branch, repository |-> self.raw_repo_name]

\* the payload of the except branch
ErrorPayload(self, message) ==
    [nodes |-> <<>>, links |-> <<>>, error |-> message,
     branch |-> self.branch, repository |-> self.raw_repo_name]

\* the payload returned when the store holds no documents
EmptyPayload(self) ==
    [nodes |-> <<>>, links |-> <<>>,
     branch |-> self.branch, repository |-> self.raw_repo_name]

\* the payload returned at the end of build_graph
GraphPayload(self) ==
    [nodes |-> DictValues(self.nodes), links |-> self.links, stats |-> self.stats,
     branch |-> self.branch, repository |-> self.raw_repo_name]

\* the builder and the payload that a call returns
Returned(self, payload) == [self |-> self, payload |-> payload]

\* the end of build_graph: the nodes scored, the stats set, the payload made
Finish(self) == Returned(self, GraphPayload(self))

\* the builder with the nodes, the links and the stats of the build
WithGraph(self, nodes, links) ==
    [self EXCEPT
       !.nodes = ScoreNodes(nodes, links),
       !.links = links,
       !.stats = [people |-> Cardinality(self.people),
                  modules |-> Cardinality(self.modules),
                  decisions |-> Cardinality(self.decisions),
                  commits |-> Len(self.commits),
                  files |-> Len(self.files)]]

\* build_graph from "Create links" on; nodes is self.nodes with the nodes of
\* this call
LinkNodes(self, nodes, loc, hash) ==
    Finish(WithGraph(self, nodes, CreateLinks(self, nodes, loc, hash)))

\* build_graph after the document loop has ended in st
BuildFrom(st, hash) ==
    IF st.error # "" THEN Returned(st.self, ErrorPayload(st.self, st.error))
    ELSE LinkNodes(st.self, CreateNodes(st.self, st.loc, hash), st.loc, hash)

\* build_graph on builder self over the rows of the store; get_error is the
\* message of the exception collection.get raises ("" when it returns), hash
\* the str hash of the process.  The result is the builder afterwards and
\* the payload returned.
build_graph(self, rows, get_error, hash) ==
    IF get_error # "" THEN Returned(self, ErrorPayload(self, get_error))
    ELSE IF rows = <<>> THEN Returned(self, EmptyPayload(self))
    ELSE BuildFrom(ProcessDocuments([self |-> self, loc |-> NewLocals, error |-> ""],
                                    rows, 0, Len(rows) - 1, hash),
                   hash)

(***************************************************************************)
(* BaseAgent (agents/base_agent.py): summarize_text.  A call is a record   *)
(* of its arguments, its local variables, the attempts made so far and the *)
(* result returned; every self.client.chat_completion call is one step.    *)
(***************************************************************************)
\* BaseAgent.__init__; api_key is HUGGINGFACE_API_KEY (NoneVal when not
\* set), max_retries is AGENT_MAX_RETRIES
BaseAgent(agent_name, api_key, max_retries) ==
    [agent_name |-> agent_name,
     huggingface_api_key |-> api_key,
     huggingface_model |-> "meta-llama/Llama-3.2-3B-Instruct",
     fallback_models |-> <<"meta-llama/Llama-3.2-1B-Instruct",
                           "google/flan-t5-base",
                           "facebook/bart-large-cnn">>,
     max_retries |-> max_retries,
     retry_delay |-> 2]

\* max_input_length of summarize_text
max_input_length == 4000

\* text[:max_length] + "..." if len(text) > max_length else text
Shortened(text, max_length) ==
    IF Len(text) > max_length THEN Prefix(text, max_length) \o "..." ELSE text

\* the result returned when HUGGINGFACE_API_KEY is not set
NoKeyResult(text, max_length) ==
    [summary |-> Shortened(text, max_length),
     error |-> "HUGGINGFACE_API_KEY not configured",
     model |-> "none",
     truncated |-> TRUE]

\* the result returned after the loops over the models ended
AllFailedResult(self, text, max_length) ==
    [summary |-> Shortened(text, max_length),
     error |-> "All models failed",
     model |-> self.huggingface_model,
     success |-> FALSE,
     fallback |-> TRUE]

\* the result returned when chat_completion answered with summary_text
GeneratedResult(summary_text, model_name, truncated) ==
    [summary |-> summary_text, model |-> model_name, success |-> TRUE,
     truncated |-> truncated, timestamp |-> "<now>"]

\* a summarize_text call no one has made yet
NoCall == [pc |-> "idle"]

\* the call when the loops over models_to_try begin at model, attempt (both
\* counted from 0), or have ended
AtAttempt(self, call, model, attempt) ==
    IF model >= Len(call.models_to_try) \/ self.max_retries <= 0
    THEN [call EXCEPT !.pc = "done",
                      !.result = AllFailedResult(self, call.text, call.max_length)]
    ELSE [call EXCEPT !.model = model, !.attempt = attempt]

\* summarize_text from its first line to the first chat_completion call
StartCall(self, text, max_length) ==
    IF ~Truthy(self.huggingface_api_key)
    THEN [pc |-> "done", given |-> text, max_length |-> max_length,
          attempts |-> <<>>, sleeps |-> <<>>,
          result |-> NoKeyResult(text, max_length)]
    ELSE AtAttempt(self,
                   [pc |-> "trying", given |-> text, max_length |-> max_length,
                    text |-> Prefix(text, max_input_length),
                    truncated |-> Len(text) > max_input_length,
                    models_to_try |-> <<self.huggingface_model>> \o self.fallback_models,
                    model |-> 0, attempt |-> 0,
                    attempts |-> <<>>, sleeps |-> <<>>,
                    result |-> NoneVal],
                   0, 0)

\* the call with the attempt at hand recorded
Attempted(call, outcome) ==
    [call EXCEPT !.attempts =
        Append(@, [model |-> call.models_to_try[call.model + 1],
                   attempt |-> call.attempt, outcome |-> outcome])]

RECURSIVE Pow2(_)
\* 2 ** n
Pow2(n) == IF n <= 0 THEN 1 ELSE 2 * Pow2(n - 1)

\* an except branch in which a model-loading error does not use up an
\* attempt
AfterExceptionLoadingUncounted(self, call, error_msg) ==
    IF StrContains(StrLower(error_msg), "loading")
    THEN [call EXCEPT !.sleeps = Append(@, 20)]
    ELSE IF call.attempt < self.max_retries - 1
    THEN [call EXCEPT !.sleeps = Append(@, self.retry_delay * Pow2(call.attempt)),
                      !.attempt = @ + 1]
    ELSE AtAttempt(self, call, call.model + 1, 0)

\* the except branch: error_msg is the message of the exception
AfterException(self, call, error_msg) ==
    IF StrContains(StrLower(error_msg), "loading")
    THEN \* time.sleep(20); continue
         IF call.attempt + 1 < self.max_retries
         THEN [call EXCEPT !.sleeps = Append(@, 20), !.attempt = @ + 1]
         ELSE AtAttempt(self, [call EXCEPT !.sleeps = Append(@, 20)], call.model + 1, 0)
    ELSE IF call.attempt < self.max_retries - 1
    THEN \* time.sleep(self.retry_delay * (2 ** attempt)); continue
         [call EXCEPT !.sleeps = Append(@, self.retry_delay * Pow2(call.attempt)),
                      !.attempt = @ + 1]
    ELSE \* break: the next model
         AtAttempt(self, call, call.model + 1, 0)

\* one pass through the try statement of summarize_text: chat_completion
\* answers with summary_text (error_msg = "") or raises error_msg
AfterAttempt(self, call, summary_text, error_msg) ==
    IF error_msg = ""
    THEN [Attempted(call, "answered") EXCEPT
            !.pc = "done",
            !.result = GeneratedResult(summary_text,
                                       call.models_to_try[call.model + 1],
                                       call.truncated)]
    ELSE AfterException(self, Attempted(call, error_msg), error_msg)

(***************************************************************************)
(* DecisionEngine (agents/decision_engine.py).  The agent data is a map    *)
(* from 'github', 'slack' and 'notion' to the result of each agent, Null   *)
(* for an agent that is not configured.  Every score and confidence the    *)
(* engine computes is a multiple of 0.05 between 0 and 1 and is kept in    *)
(* hundredths; the thresholds it is compared with are multiples of 0.05    *)
(* as well.                                                                *)
(***************************************************************************)
\* None where a dict is expected, and the dict {}
Null == [none |-> TRUE]
IsNull(d) == DOMAIN d = {"none"}
EmptyDict == <<>>

\* DecisionEngine.__init__; threshold is DECISION_CONFIDENCE_THRESHOLD
DecisionEngine(threshold) == [decision_threshold |-> threshold]

\* the exception d.get(...) raises when d is None
NoneHasNoGet == [exception |-> "'NoneType' object has no attribute 'get'"]
Raised(result) == "exception" \in DOMAIN result

\* d.get('success') is true
Succeeds(d) == DictGet(d, "success", FALSE) = TRUE

\* how many items of a list have priority 'high'
HighPriority(items) ==
    Cardinality({ i \in DOMAIN items : DictGet(items[i], "priority", NoneVal) = "high" })

\* the entries urgent_items is extended with for one source
GithubEntries(items) ==
    [i \in DOMAIN items |->
        [source |-> "github", item |-> items[i],
         priority |-> DictGet(items[i], "priority", "medium")]]
SourceEntries(source, items, priority) ==
    [i \in DOMAIN items |-> [source |-> source, item |-> items[i], priority |-> priority]]

\* urgent_items after the three sources are checked
UrgentItems(github_data, slack_data, notion_data) ==
    (IF Succeeds(github_data)
     THEN GithubEntries(DictGet(github_data, "urgent_items", <<>>)) ELSE <<>>)
    \o (IF Succeeds(slack_data)
        THEN SourceEntries("slack", DictGet(slack_data, "action_items", <<>>), "medium")
        ELSE <<>>)
    \o (IF Succeeds(notion_data)
        THEN SourceEntries("notion", DictGet(notion_data, "priority_changes", <<>>), "high")
        ELSE <<>>)

\* urgency_score, in hundredths, after the three sources are checked and
\* the sum is cut at 1.0
UrgencyScore(github_data, slack_data, notion_data) ==
    Min((IF Succeeds(github_data)
         THEN Min(HighPriority(DictGet(github_data, "urgent_items", <<>>)) * 20, 50)
         ELSE 0)
        + (IF Succeeds(slack_data)
           THEN Min(Len(DictGet(slack_data, "action_items", <<>>)) * 10, 30)
           ELSE 0)
        + (IF Succeeds(notion_data)
           THEN Min(Len(DictGet(notion_data, "priority_changes", <<>>)) * 15, 20)
           ELSE 0),
        100)

\* a level assignment whose thresholds are exclusive
UrgencyLevelAbove(urgency_score) ==
    IF urgency_score > 70 THEN "critical"
    ELSE IF urgency_score > 40 THEN "high"
    ELSE IF urgency_score > 20 THEN "medium"
    ELSE "low"

\* "Determine urgency level"
UrgencyLevel(urgency_score) ==
    IF urgency_score >= 70 THEN "critical"
    ELSE IF urgency_score >= 40 THEN "high"
    ELSE IF urgency_score >= 20 THEN "medium"
    ELSE "low"

\* _get_urgency_recommendation; each string begins with an emoji in the
\* source, which is written here as its name in brackets
get_urgency_recommendation(level, items) ==
    IF level = "critical"
    THEN "[warning] IMMEDIATE ACTION REQUIRED: Multiple critical items need attention. Prioritize urgent GitHub issues and Slack action items."
    ELSE IF level = "high"
    THEN "[high voltage] HIGH PRIORITY: Several items require prompt attention. Review and address within 24 hours."
    ELSE IF level = "medium"
    THEN "[clipboard] MODERATE ACTIVITY: Some items need attention. Plan to address in the next few days."
    ELSE "[check mark] LOW URGENCY: No critical items. Continue with planned work."

\* the dict analyze_urgency returns
UrgencyAnalysis(urgency_score, urgent_items) ==
    [urgency_score |-> urgency_score,
     urgency_level |-> UrgencyLevel(urgency_score),
     urgent_items_count |-> Len(urgent_items),
     urgent_items |-> SeqPrefix(urgent_items, 10),
     recommendation |->
         get_urgency_recommendation(UrgencyLevel(urgency_score), urgent_items)]

\* agent_data.get(key, {}).get(...) raises for one of the three sources
AnyNull(agent_data) ==
    \E key \in {"github", "slack", "notion"} : IsNull(DictGet(agent_data, key, EmptyDict))

\* analyze_urgency: the dict returned, or the exception raised
analyze_urgency(agent_data) ==
    IF AnyNull(agent_data) THEN NoneHasNoGet
    ELSE UrgencyAnalysis(
             UrgencyScore(DictGet(agent_data, "github", EmptyDict),
                          DictGet(agent_data, "slack", EmptyDict),
                          DictGet(agent_data, "notion", EmptyDict)),
             UrgentItems(DictGet(agent_data, "github", EmptyDict),
                         DictGet(agent_data, "slack", EmptyDict),
                         DictGet(agent_data, "notion", EmptyDict)))

\* Counter(values) as the list of its <<value, count>> items, in the order
\* in which the values are first met
Counter(values) ==
    [i \in DOMAIN Dedup(values) |->
        <<Dedup(values)[i],
          Cardinality({ j \in DOMAIN values : values[j] = Dedup(values)[i] })>>]

\* the position of the first item of the greatest count
FirstGreatest(items) ==
    CHOOSE i \in DOMAIN items :
        /\ \A j \in DOMAIN items : items[j][2] <= items[i][2]
        /\ \A j \in 1..(i - 1) : items[j][2] < items[i][2]

\* seq without its i-th element
Without(seq, i) == SubSeq(seq, 1, i - 1) \o SubSeq(seq, i + 1, Len(seq))

RECURSIVE ByCount(_)
\* the items from the most common to the least; items of equal count keep
\* their order
ByCount(items) ==
    IF items = <<>> THEN <<>>
    ELSE <<items[FirstGreatest(items)]>> \o ByCount(Without(items, FirstGreatest(items)))

\* Counter(values).most_common(n)
most_common(values, n) == SeqPrefix(ByCount(Counter(values)), n)

\* [c.get('author') for c in commits if c.get('author')]
CommitAuthors(commits) ==
    [i \in DOMAIN SelectSeq(commits, LAMBDA c : Truthy(DictGet(c, "author", NoneVal))) |->
        SelectSeq(commits, LAMBDA c : Truthy(DictGet(c, "author", NoneVal)))[i].author]

\* the words of the topics of the discussions that are longer than 5
\* characters (the topics of the model have single spaces between words)
TopicWords(key_discussions) ==
    Concat([i \in DOMAIN key_discussions |->
        SelectSeq(StrSplit(StrLower(DictGet(key_discussions[i], "topic", "")), " "),
                  LAMBDA w : Len(w) > 5)])

\* the participants of the discussions
AllParticipants(key_discussions) ==
    Concat([i \in DOMAIN key_discussions |->
        DictGet(key_discussions[i], "participants", <<>>)])

\* identify_patterns on agent data none of whose sources is None
identify_patterns(agent_data) ==
    [active_contributors |->
        IF Succeeds(DictGet(agent_data, "github", EmptyDict))
        THEN [i \in DOMAIN most_common(CommitAuthors(
                  DictGet(DictGet(agent_data.github, "raw_data", EmptyDict),
                          "commits", <<>>)), 5) |->
                [name |-> most_common(CommitAuthors(
                              DictGet(DictGet(agent_data.github, "raw_data", EmptyDict),
                                      "commits", <<>>)), 5)[i][1],
                 commits |-> most_common(CommitAuthors(
                                 DictGet(DictGet(agent_data.github, "raw_data", EmptyDict),
                                         "commits", <<>>)), 5)[i][2]]]
        ELSE <<>>,
     hot_topics |->
        IF Succeeds(DictGet(agent_data, "slack", EmptyDict))
        THEN [i \in DOMAIN most_common(TopicWords(
                  DictGet(agent_data.slack, "key_discussions", <<>>)), 5) |->
                [topic |-> most_common(TopicWords(
                               DictGet(agent_data.slack, "key_discussions", <<>>)), 5)[i][1],
                 mentions |-> most_common(TopicWords(
                                  DictGet(agent_data.slack, "key_discussions", <<>>)), 5)[i][2]]]
        ELSE <<>>,
     recurring_issues |-> <<>>,
     collaboration_patterns |->
        IF Succeeds(DictGet(agent_data, "slack", EmptyDict))
        THEN [i \in DOMAIN most_common(AllParticipants(
                  DictGet(agent_data.slack, "key_discussions", <<>>)), 5) |->
                [participant |-> most_common(AllParticipants(
                                     DictGet(agent_data.slack, "key_discussions", <<>>)), 5)[i][1],
                 discussions |-> most_common(AllParticipants(
                                     DictGet(agent_data.slack, "key_discussions", <<>>)), 5)[i][2]]]
        ELSE <<>>]

\* item['item'].get('title', item['item'].get('text', 'Unknown')[:50])
ItemTitle(item) == DictGet(item, "title", Prefix(DictGet(item, "text", "Unknown"), 50))

\* Recommendation 1: Address urgent items
UrgentRecommendation(urgency_analysis) ==
    IF urgency_analysis.urgency_score >= 40
    THEN <<[title |-> "Address Urgent Items",
            description |-> urgency_analysis.recommendation,
            priority |-> urgency_analysis.urgency_level,
            confidence |-> Min(urgency_analysis.urgency_score + 20, 100),
            action_items |->
                [i \in DOMAIN SeqPrefix(urgency_analysis.urgent_items, 5) |->
                    "Review " \o urgency_analysis.urgent_items[i].source \o " item: "
                        \o ItemTitle(urgency_analysis.urgent_items[i].item)]]>>
    ELSE <<>>

\* Recommendation 2: Engage with active contributors
ContributorRecommendation(active_contributors) ==
    IF active_contributors # <<>>
    THEN <<[title |-> "Recognize Active Contributors",
            description |->
                active_contributors[1].name \o " has been highly active with "
                    \o IntToStr(active_contributors[1].commits)
                    \o " commits. Consider acknowledging their contributions.",
            priority |-> "low",
            confidence |-> 70,
            action_items |->
                [i \in DOMAIN SeqPrefix(active_contributors, 3) |->
                    "Thank " \o active_contributors[i].name \o " for their "
                        \o IntToStr(active_contributors[i].commits) \o " commits"]]>>
    ELSE <<>>

\* Recommendation 3: Follow up on key discussions
DiscussionRecommendation(slack_data) ==
    IF ~IsNull(slack_data) /\ slack_data # EmptyDict /\ Succeeds(slack_data)
          /\ DictGet(slack_data, "key_discussions", <<>>) # <<>>
    THEN <<[title |-> "Follow Up on Key Discussions",
            description |->
                IntToStr(Len(slack_data.key_discussions))
                    \o " active discussions detected. Ensure decisions are documented.",
            priority |-> "medium",
            confidence |-> 65,
            action_items |->
                [i \in DOMAIN SeqPrefix(slack_data.key_discussions, 3) |->
                    "Document outcomes of #" \o slack_data.key_discussions[i].channel
                        \o " discussion"]]>>
    ELSE <<>>

\* Recommendation 4: Update roadmap if priorities changed
RoadmapRecommendation(notion_data) ==
    IF ~IsNull(notion_data) /\ notion_data # EmptyDict /\ Succeeds(notion_data)
          /\ DictGet(notion_data, "priority_changes", <<>>) # <<>>
    THEN <<[title |-> "Review Roadmap Changes",
            description |->
                IntToStr(Len(notion_data.priority_changes))
                    \o " priority/roadmap pages were updated. Ensure team alignment.",
            priority |-> "high",
            confidence |-> 75,
            action_items |->
                [i \in DOMAIN SeqPrefix(notion_data.priority_changes, 3) |->
                    "Review changes to: " \o notion_data.priority_changes[i].title]]>>
    ELSE <<>>

\* priority_order.get(priority, 4)
priority_order(priority) ==
    IF priority = "critical" THEN 0
    ELSE IF priority = "high" THEN 1
    ELSE IF priority = "medium" THEN 2
    ELSE IF priority = "low" THEN 3
    ELSE 4

\* the sort key of a is less than that of b:
\* (priority_order.get(x['priority'], 4), -x['confidence'])
KeyLess(a, b) ==
    \/ priority_order(a.priority) < priority_order(b.priority)
    \/ /\ priority_order(a.priority) = priority_order(b.priority)
       /\ a.confidence > b.confidence

\* the position of the first recommendation of the least key
FirstLeast(recommendations) ==
    CHOOSE i \in DOMAIN recommendations :
        /\ \A j \in DOMAIN recommendations : ~KeyLess(recommendations[j], recommendations[i])
        /\ \A j \in 1..(i - 1) : KeyLess(recommendations[i], recommendations[j])

\* the recommendations in the order in which they were appended
AppendOrder(recommendations) == recommendations

RECURSIVE SortedRecommendations(_)
\* recommendations.sort(key=...): a stable sort
SortedRecommendations(recommendations) ==
    IF recommendations = <<>> THEN <<>>
    ELSE <<recommendations[FirstLeast(recommendations)]>>
           \o SortedRecommendations(Without(recommendations, FirstLeast(recommendations)))

\* generate_recommendations
generate_recommendations(agent_data, urgency_analysis, patterns) ==
    SortedRecommendations(
        UrgentRecommendation(urgency_analysis)
        \o ContributorRecommendation(DictGet(patterns, "active_contributors", <<>>))
        \o DiscussionRecommendation(DictGet(agent_data, "slack", EmptyDict))
        \o RoadmapRecommendation(DictGet(agent_data, "notion", EmptyDict)))

\* "Filter by confidence threshold"
HighConfidence(recommendations, threshold) ==
    SelectSeq(recommendations, LAMBDA r : r.confidence >= threshold)

\* the result of make_decisions when no exception is raised
DecisionResult(self, urgency_analysis, patterns, recommendations) ==
    [success |-> TRUE,
     urgency_analysis |-> urgency_analysis,
     patterns |-> patterns,
     recommendations |-> recommendations,
     high_confidence_recommendations |->
         HighConfidence(recommendations, self.decision_threshold),
     metadata |->
         [confidence_threshold |-> self.decision_threshold,
          total_recommendations |-> Len(recommendations),
          high_confidence_count |->
              Len(HighConfidence(recommendations, self.decision_threshold)),
          timestamp |-> "<now>"]]

\* make_decisions from "Step 2" on
DecideFrom(self, agent_data, urgency_analysis, patterns) ==
    DecisionResult(self, urgency_analysis, patterns,
                   generate_recommendations(agent_data, urgency_analysis, patterns))

\* make_decisions; the summarizer result is a dict with the key agent_data
make_decisions(self, summarizer_dict) ==
    IF AnyNull(DictGet(summarizer_dict, "agent_data", EmptyDict))
    THEN [success |-> FALSE, error |-> NoneHasNoGet.exception, timestamp |-> "<now>"]
    ELSE DecideFrom(self, DictGet(summarizer_dict, "agent_data", EmptyDict),
                    analyze_urgency(DictGet(summarizer_dict, "agent_data", EmptyDict)),
                    identify_patterns(DictGet(summarizer_dict, "agent_data", EmptyDict)))

(***************************************************************************)
(* KnowledgeGraphBuilder.__init__: the names of the store directory and of *)
(* the collection the builder reads.                                       *)
(***************************************************************************)
BuilderChromaDirName(self) == "chroma_db_" \o self.repo_name \o "_" \o self.branch_safe_name
BuilderCollectionName(self) == "context_" \o self.repo_name \o "_" \o self.branch_safe_name

(***************************************************************************)
(* AISummarizer (agents/ai_summarizer.py).  An agent the summarizer has    *)
(* not initialized is Null; the result of an agent's process() is a dict   *)
(* with the keys the summarizer reads.  The agents of the model report no  *)
(* urgent items, action items, discussions or priority changes, so the     *)
(* aggregated text has the header and one section for each source whose    *)
(* result has success = true.                                              *)
(***************************************************************************)
\* AISummarizer.__init__: each agent is a BaseAgent or Null
AISummarizer(github_agent, slack_agent, notion_agent) ==
    [repo_name |-> Repository, branch |-> BranchName,
     github_agent |-> github_agent, slack_agent |-> slack_agent,
     notion_agent |-> notion_agent]

\* collect_all_data: the result of each initialized agent, None for the others
collect_all_data(self, github_result, slack_result, notion_result) ==
    [github |-> IF IsNull(self.github_agent) THEN Null ELSE github_result,
     slack |-> IF IsNull(self.slack_agent) THEN Null ELSE slack_result,
     notion |-> IF IsNull(self.notion_agent) THEN Null ELSE notion_result,
     timestamp |-> "<now>",
     period_hours |-> 24]

\* the lines aggregate_summaries appends for one source
SectionLines(source_data, title) ==
    IF ~IsNull(source_data) /\ Succeeds(source_data)
    THEN <<title,
           IF Succeeds(DictGet(source_data, "ai_summary", EmptyDict))
           THEN DictGet(source_data.ai_summary, "summary", "No summary available")
           ELSE DictGet(source_data, "formatted_text", "No data"),
           "">>
    ELSE <<>>

aggregate_summaries(all_data) ==
    StrJoin(<<"=== DAILY PROJECT BRIEFING ===",
              "Generated: <now>",
              "Period: Last " \o IntToStr(all_data.period_hours) \o " hours",
              "">>
            \o SectionLines(all_data.github, "--- GITHUB ACTIVITY ---")
            \o SectionLines(all_data.slack, "--- SLACK DISCUSSIONS ---")
            \o SectionLines(all_data.notion, "--- NOTION UPDATES ---"),
            "\n")

\* self.github_agent or self.slack_agent or self.notion_agent
SummarizerAgent(self) ==
    IF ~IsNull(self.github_agent) THEN self.github_agent
    ELSE IF ~IsNull(self.slack_agent) THEN self.slack_agent
    ELSE self.notion_agent

SummaryPrompt(aggregated_text) ==
    "Summarize the following project updates into a concise daily briefing with clear action items and priorities:\n\n"
    \o aggregated_text
    \o "\n\nFocus on:\n1. Most important developments\n2. Urgent items requiring immediate attention\n3. Key decisions or discussions\n4. Recommended next steps"

\* what summarizer_agent.summarize_text(prompt, max_length=600) returns when
\* the inference service answers summary_text, or fails every call when
\* summary_text is None
SummarizeOutcome(agent, prompt, summary_text) ==
    IF ~Truthy(agent.huggingface_api_key) THEN NoKeyResult(prompt, 600)
    ELSE IF summary_text = NoneVal
         THEN AllFailedResult(agent, Prefix(prompt, max_input_length), 600)
         ELSE GeneratedResult(summary_text, agent.huggingface_model,
                              Len(prompt) > max_input_length)

\* final_summary of generate_unified_summary
FinalSummary(self, aggregated_text, summary_text) ==
    IF ~IsNull(SummarizerAgent(self))
    THEN SummarizeOutcome(SummarizerAgent(self), SummaryPrompt(aggregated_text), summary_text)
    ELSE [summary |-> Prefix(aggregated_text, 600),
          error |-> "No agents available for AI summarization",
          success |-> FALSE,
          fallback |-> TRUE]

\* all_data.get(source, {}).get('ai_summary'), the source's entry not None
IndividualSummary(source_data) == DictGet(source_data, "ai_summary", Null)

\* generate_unified_summary; all_data.get(source, {}) is None for a source
\* whose agent is not initialized, and None has no get
generate_unified_summary(self, all_data, summary_text) ==
    IF AnyNull(all_data)
    THEN NoneHasNoGet
    ELSE [unified_summary |-> FinalSummary(self, aggregate_summaries(all_data), summary_text),
          aggregated_text |-> aggregate_summaries(all_data),
          individual_summaries |->
              [github |-> IndividualSummary(all_data.github),
               slack |-> IndividualSummary(all_data.slack),
               notion |-> IndividualSummary(all_data.notion)],
          timestamp |-> "<now>"]

\* the result of run once generate_unified_summary returned or raised
RunResult(self, all_data, unified_summary) ==
    IF Raised(unified_summary)
    THEN [success |-> FALSE, error |-> unified_summary.exception, timestamp |-> "<now>"]
    ELSE [success |-> TRUE,
          unified_summary |-> unified_summary,
          agent_data |-> all_data,
          metadata |->
              [repo |-> self.repo_name, branch |-> self.branch, period_hours |-> 24,
               timestamp |-> "<now>",
               agents_active |->
                   [github |-> ~IsNull(self.github_agent),
                    slack |-> ~IsNull(self.slack_agent),
                    notion |-> ~IsNull(self.notion_agent)]]]

\* AISummarizer.run
run(self, all_data, summary_text) ==
    RunResult(self, all_data, generate_unified_summary(self, all_data, summary_text))

(***************************************************************************)
(* GitHubCollector.collect_commits.  The commits of the branch come from   *)
(* the GitHub API page by page while the loop iterates over them, so a     *)
(* request can fail before the first page or between two pages.  A call is *)
(* a record of its local variables; every get_commits iteration is one     *)
(* step.  The rate-limit query of _handle_rate_limit is taken to answer.   *)
(***************************************************************************)
\* a commit as the API returns it; login and name are None when absent
GitCommit(sha, login, name, files) ==
    [sha |-> sha, login |-> login, name |-> name, message |-> "Change " \o sha,
     files |-> files]

\* author_name of collect_commits
AuthorName(commit) ==
    IF Truthy(commit.login) THEN commit.login
    ELSE IF Truthy(commit.name) THEN commit.name
    ELSE "Unknown"

\* commit_data of collect_commits
FetchedCommit(commit) ==
    [type |-> "commit",
     sha |-> commit.sha,
     message |-> commit.message,
     author |-> AuthorName(commit),
     date |-> "<date>",
     url |-> "https://github.com/o/r/commit/" \o commit.sha,
     files_changed |-> commit.files]

\* max_retries of collect_commits
FetchRetries == 3

\* a collect_commits call no one has made yet
NoFetch == [pc |-> "idle"]

\* collect_commits from its first line to the first get_commits call
StartFetch(branch_commits, max_commits) ==
    [pc |-> "fetching", commits |-> Prefix(branch_commits, max_commits),
     attempt |-> 0, commits_data |-> <<>>]

RECURSIVE AppendCommits(_, _, _, _)
\* commits_data after the loop body ran on the first to commits, those at
\* the positions in broken raising in the body and being skipped
AppendCommits(commits_data, commits, to, broken) ==
    IF to = 0 THEN commits_data
    ELSE IF to \in broken THEN AppendCommits(commits_data, commits, to - 1, broken)
    ELSE Append(AppendCommits(commits_data, commits, to - 1, broken),
                FetchedCommit(commits[to]))

\* the call after one attempt: the iteration yielded the first fetched
\* commits and then ended (error "") or raised error
AfterFetch(call, fetched, error, broken) ==
    IF error = "" \/ error = "Exception"
       \/ call.attempt = FetchRetries - 1
    THEN [call EXCEPT !.pc = "done",
                      !.commits_data = AppendCommits(@, call.commits, fetched, broken)]
    ELSE [call EXCEPT !.attempt = @ + 1,
                      !.commits_data = AppendCommits(@, call.commits, fetched, broken)]

(***************************************************************************)
(* The system: one document store (the collection context_{repo}_{branch}),*)
(* written by GitHubCollector.collect_all and by other clients of the      *)
(* store, and one KnowledgeGraphBuilder in one interpreter process, whose  *)
(* build_graph is called any number of times.                              *)
(***************************************************************************)
VARIABLES
    store,              \* the rows of the collection, in insertion order
    hash_seed,          \* the seed of str hashing in the builder's process
    graph_builder,      \* the KnowledgeGraphBuilder
    calls,              \* the build_graph calls made: rows read, payload returned
    decision_text,      \* extract_decisions called on its own: its text,
    decision_metadata,  \*   its metadata
    decision_list,      \*   and the list it returned (NotCalled before the call)
    base_agent,         \* a BaseAgent
    summarize_call,     \* its summarize_text call: arguments, locals, result
    decision_engine,    \* the DecisionEngine
    engine_input,       \* the agent data it is given
    urgency_result,     \* what analyze_urgency, called on its own, returned
    decisions_result,   \* what make_decisions returned
    weight_calls,       \* the latest two calls of calculate_relationship_weight
    modules_text,       \* extract_modules called on its own: its text
    modules_set,        \*   and the set it returned (NoModules before the call)
    collector,          \* the GitHubCollector (Null before it is constructed)
    ai_summarizer,      \* the AISummarizer (Null before it is constructed)
    run_call,           \* its run call: the data collected, the result returned
    commits_call        \* a collect_commits call: its locals

agent_vars == <<base_agent, summarize_call>>
engine_vars == <<decision_engine, engine_input, urgency_result, decisions_result>>
weight_vars == <<weight_calls>>
modules_vars == <<modules_text, modules_set>>
pipeline_vars == <<collector, ai_summarizer, run_call, commits_call>>

\* modules_set before extract_modules has returned
NoModules == {NoneVal}
ModulesIdle == modules_text = NoneVal /\ modules_set = NoModules

\* no AISummarizer constructed
SummarizerIdle == ai_summarizer = Null /\ run_call = Null

\* no GitHubCollector and no AISummarizer constructed
PipelineIdle == collector = Null /\ SummarizerIdle /\ commits_call = NoFetch

vars ==
    <<store, hash_seed, graph_builder, calls,
      decision_text, decision_metadata, decision_list,
      agent_vars, engine_vars, weight_vars, modules_vars, pipeline_vars>>

\* the messages of the exceptions collection.get raises in the model
GetErrors == {"Collection context_o_r_main does not exist."}

\* how many build_graph calls a behaviour makes
MaxBuilds == 3

\* decision_list before extract_decisions has returned
NotCalled == <<NoneVal>>

\* no agent, no engine and no weight call: the builder and its store alone
NoAgents ==
    /\ base_agent = NoneVal
    /\ summarize_call = NoCall
    /\ decision_engine = NoneVal
    /\ engine_input = NoneVal
    /\ urgency_result = Null
    /\ decisions_result = Null
    /\ weight_calls = <<>>
    /\ ModulesIdle
    /\ PipelineIdle

Init ==
    /\ store = <<>>
    /\ hash_seed \in HashSeeds
    /\ graph_builder = KnowledgeGraphBuilder(Repository, BranchName)
    /\ calls = <<>>
    /\ decision_text = NoneVal
    /\ decision_metadata = NoneMeta
    /\ decision_list = NotCalled
    /\ NoAgents

\* GitHubCollector.collect_all over the GitHub data named: the items are
\* upserted by store_in_chromadb
CollectAll(data) ==
    /\ store' = Upsert(store, StoreRows(data, BranchName))
    /\ UNCHANGED <<hash_seed, graph_builder, calls>>
    /\ UNCHANGED <<decision_text, decision_metadata, decision_list>>
    /\ UNCHANGED <<agent_vars, engine_vars, weight_vars, modules_vars, pipeline_vars>>

\* another client of the store upserts rows of its own
Put(rows) ==
    /\ store' = Upsert(store, rows)
    /\ UNCHANGED <<hash_seed, graph_builder, calls>>
    /\ UNCHANGED <<decision_text, decision_metadata, decision_list>>
    /\ UNCHANGED <<agent_vars, engine_vars, weight_vars, modules_vars, pipeline_vars>>

\* one call of graph_builder.build_graph(); get_error is the message of the
\* exception collection.get raises, "" when it returns the rows
BuildGraph(get_error) ==
    /\ Len(calls) < MaxBuilds
    /\ \E result \in {build_graph(graph_builder, store, get_error, str_hash[hash_seed])} :
         /\ graph_builder' = result.self
         /\ calls' = Append(calls, [rows |-> store, payload |-> result.payload])
    /\ UNCHANGED <<store, hash_seed>>
    /\ UNCHANGED <<decision_text, decision_metadata, decision_list>>
    /\ UNCHANGED <<agent_vars, engine_vars, weight_vars, modules_vars, pipeline_vars>>

Next ==
    \/ \E data \in {DataSmall, DataBig} : CollectAll(data)
    \/ Put(RawRows)
    \/ \E get_error \in GetErrors \cup {""} : BuildGraph(get_error)

Spec == Init /\ [][Next]_vars

(***************************************************************************)
(* extract_decisions called on its own, on a text and a metadata map       *)
(***************************************************************************)
ExtractInit ==
    /\ store = <<>>
    /\ hash_seed \in HashSeeds
    /\ graph_builder = KnowledgeGraphBuilder(Repository, BranchName)
    /\ calls = <<>>
    /\ decision_text \in DecisionTexts \cup {NoneVal, ""}
    /\ decision_metadata \in DecisionMetadatas
    /\ decision_list = NotCalled
    /\ NoAgents

\* decisions = self.extract_decisions(doc, metadata)
ExtractDecisions ==
    /\ decision_list = NotCalled
    /\ decision_list' =
         extract_decisions(decision_text, decision_metadata, str_hash[hash_seed])
    /\ UNCHANGED <<store, hash_seed, graph_builder, calls>>
    /\ UNCHANGED <<decision_text, decision_metadata>>
    /\ UNCHANGED <<agent_vars, engine_vars, weight_vars, modules_vars, pipeline_vars>>

ExtractNext == ExtractDecisions

ExtractSpec == ExtractInit /\ [][ExtractNext]_vars

(***************************************************************************)
(* A BaseAgent whose summarize_text is called once; the inference service  *)
(* answers or fails each chat_completion call as it likes.                 *)
(***************************************************************************)
\* the builder, its store and the engine left alone
BuilderIdle ==
    /\ store = <<>>
    /\ hash_seed = 3
    /\ graph_builder = KnowledgeGraphBuilder(Repository, BranchName)
    /\ calls = <<>>
    /\ decision_text = NoneVal
    /\ decision_metadata = NoneMeta
    /\ decision_list = NotCalled

EngineIdle ==
    /\ decision_engine = NoneVal
    /\ engine_input = NoneVal
    /\ urgency_result = Null
    /\ decisions_result = Null

builder_vars ==
    <<store, hash_seed, graph_builder, calls,
      decision_text, decision_metadata, decision_list>>

\* the values of AGENT_MAX_RETRIES, the texts and the max_length arguments
RetryCounts == {1, 3}
LongText == Repeat("a", max_input_length - 1) \o "bcd"
SummaryTexts == {"", "short text", LongText}
MaxLengths == {5, 500}

\* what chat_completion answers, and the messages of what it raises
Answers == {"A summary."}
ApiErrors == {"503 Service Unavailable", "Model x is currently loading"}

SummarizeInit ==
    /\ BuilderIdle
    /\ EngineIdle
    /\ weight_calls = <<>>
    /\ ModulesIdle
    /\ PipelineIdle
    /\ base_agent \in { BaseAgent("github", api_key, max_retries) :
                          api_key \in {NoneVal, "hf_key"}, max_retries \in RetryCounts }
    /\ summarize_call = NoCall

\* self.summarize_text(text, max_length) is called
SummarizeText(text, max_length) ==
    /\ summarize_call.pc = "idle"
    /\ summarize_call' = StartCall(base_agent, text, max_length)
    /\ UNCHANGED <<builder_vars, base_agent, engine_vars, weight_vars, modules_vars, pipeline_vars>>

\* self.client.chat_completion returns or raises, and summarize_text runs on
\* to its next chat_completion call or to its return
ChatCompletion(summary_text, error_msg) ==
    /\ summarize_call.pc = "trying"
    /\ summarize_call' = AfterAttempt(base_agent, summarize_call, summary_text, error_msg)
    /\ UNCHANGED <<builder_vars, base_agent, engine_vars, weight_vars, modules_vars, pipeline_vars>>

SummarizeNext ==
    \/ \E text \in SummaryTexts, max_length \in MaxLengths : SummarizeText(text, max_length)
    \/ \E summary_text \in Answers : ChatCompletion(summary_text, "")
    \/ \E error_msg \in ApiErrors : ChatCompletion("", error_msg)

SummarizeSpec == SummarizeInit /\ [][SummarizeNext]_vars

(***************************************************************************)
(* The decision engine on its own: one DecisionEngine and one result of    *)
(* the AI summarizer, whose agent_data holds what collect_all_data put     *)
(* there for each of the three sources: None when the agent is not         *)
(* configured, {"error", "success": False} when the agent failed, else the *)
(* agent's result.                                                         *)
(***************************************************************************)
\* the values of DECISION_CONFIDENCE_THRESHOLD, in hundredths
Thresholds == {60, 75}

FailedResult == [success |-> FALSE, error |-> "API rate limit exceeded"]

Issue(title, priority) == [type |-> "issue", title |-> title, priority |-> priority]
\* what identify_urgent_items returned
GithubUrgent ==
    { <<>>,
      <<Issue("Crash on start", "high")>>,
      <<Issue("Crash on start", "high"), Issue("Stale pull request", "medium")>>,
      <<Issue("Crash on start", "high"), Issue("Data loss", "high")>>,
      <<Issue("Crash on start", "high"), Issue("Data loss", "high"),
        Issue("Login broken", "high"), [type |-> "pr", title |-> "Old branch"]>> }
GithubCommits ==
    { <<>>,
      <<[author |-> "bob", message |-> "fix"], [author |-> "alice", message |-> "add"],
        [author |-> NoneVal, message |-> "merge"], [author |-> "alice", message |-> "test"]>> }
GithubResults ==
    {Null, FailedResult}
    \cup { [success |-> TRUE, urgent_items |-> urgent, raw_data |-> [commits |-> commits]] :
             urgent \in GithubUrgent, commits \in GithubCommits }

ActionItem(n) == [channel |-> "general", author |-> "carol", text |-> "todo " \o IntToStr(n)]
SlackActions ==
    { <<>>, <<ActionItem(1), ActionItem(2)>>,
      <<ActionItem(1), ActionItem(2), ActionItem(3), ActionItem(4)>> }
SlackDiscussions ==
    { <<>>,
      <<[channel |-> "general", topic |-> "Release planning for storage",
         participants |-> <<"carol", "dave">>],
        [channel |-> "dev", topic |-> "Storage migration", participants |-> <<"dave">>]>> }
SlackResults ==
    {Null, FailedResult}
    \cup { [success |-> TRUE, action_items |-> actions, key_discussions |-> discussions] :
             actions \in SlackActions, discussions \in SlackDiscussions }

NotionChanges ==
    { <<>>, <<[title |-> "Roadmap Q3"]>>, <<[title |-> "Roadmap Q3"], [title |-> "Priorities"]>> }
NotionResults ==
    {Null, FailedResult}
    \cup { [success |-> TRUE, priority_changes |-> changes] : changes \in NotionChanges }

\* what AISummarizer.run returns, and a result whose agent_data has no
\* entry for notion
SummarizerResults ==
    { [success |-> TRUE,
       agent_data |-> [github |-> github_data, slack |-> slack_data, notion |-> notion_data,
                       timestamp |-> "<now>", period_hours |-> 24]] :
          github_data \in GithubResults, slack_data \in SlackResults,
          notion_data \in NotionResults }
    \cup { [success |-> TRUE,
            agent_data |-> [github |-> github_data, slack |-> slack_data]] :
              github_data \in GithubResults, slack_data \in SlackResults }

AgentIdle == base_agent = NoneVal /\ summarize_call = NoCall

DecisionInit ==
    /\ BuilderIdle
    /\ AgentIdle
    /\ weight_calls = <<>>
    /\ ModulesIdle
    /\ PipelineIdle
    /\ decision_engine \in { DecisionEngine(threshold) : threshold \in Thresholds }
    /\ engine_input \in SummarizerResults
    /\ urgency_result = Null
    /\ decisions_result = Null

\* self.analyze_urgency(agent_data) is called with the agent data of the
\* summarizer result
AnalyzeUrgency ==
    /\ IsNull(urgency_result)
    /\ urgency_result' = analyze_urgency(DictGet(engine_input, "agent_data", EmptyDict))
    /\ UNCHANGED <<builder_vars, agent_vars, weight_vars, modules_vars, pipeline_vars,
                   decision_engine, engine_input, decisions_result>>

\* self.make_decisions(summarizer_result) is called
MakeDecisions ==
    /\ IsNull(decisions_result)
    /\ decisions_result' = make_decisions(decision_engine, engine_input)
    /\ UNCHANGED <<builder_vars, agent_vars, weight_vars, modules_vars, pipeline_vars,
                   decision_engine, engine_input, urgency_result>>

DecisionNext == AnalyzeUrgency \/ MakeDecisions

DecisionSpec == DecisionInit /\ [][DecisionNext]_vars

(***************************************************************************)
(* Properties of analyze_urgency and make_decisions, stated on the results *)
(* of the calls of DecisionSpec.                                           *)
(***************************************************************************)
AgentData == DictGet(engine_input, "agent_data", EmptyDict)
UrgencyCalled == ~IsNull(urgency_result)

\* the data of a source, {} when agent_data has no entry for it
SourceData(source) == DictGet(AgentData, source, EmptyDict)

\* a source's result has success = true
HasSuccess(source) ==
    /\ "success" \in DOMAIN SourceData(source)
    /\ SourceData(source).success = TRUE

\* the number of items a successful source lists under a key
ItemsOf(source, key) ==
    IF HasSuccess(source) /\ key \in DOMAIN SourceData(source)
    THEN SourceData(source)[key] ELSE <<>>

\* the capped weighted sum, in hundredths
CappedSum ==
    Min(Cardinality({ i \in DOMAIN ItemsOf("github", "urgent_items") :
                        /\ "priority" \in DOMAIN ItemsOf("github", "urgent_items")[i]
                        /\ ItemsOf("github", "urgent_items")[i].priority = "high" }) * 20, 50)
    + Min(Len(ItemsOf("slack", "action_items")) * 10, 30)
    + Min(Len(ItemsOf("notion", "priority_changes")) * 15, 20)

\* the urgent items of the list that come from a source
FromSource(items, source) == SelectSeq(items, LAMBDA entry : entry.source = source)

\* C13: for any agent data, analyze_urgency returns a score in [0, 1] that
\* is the sum of the capped contributions of the sources whose result has
\* success = true, and a source without success = true has no urgent item
\* in the list
C13_ScoreIsCappedSum ==
    UrgencyCalled =>
        /\ "urgency_score" \in DOMAIN urgency_result
        /\ urgency_result.urgency_score \in 0..100
        /\ urgency_result.urgency_score = CappedSum
        /\ \A source \in {"github", "slack", "notion"} :
              ~HasSuccess(source) => FromSource(urgency_result.urgent_items, source) = <<>>

\* the same statement for agent data none of whose sources is None
C13_ScoreIsCappedSumOfDicts ==
    (UrgencyCalled /\ ~AnyNull(AgentData)) =>
        /\ urgency_result.urgency_score \in 0..100
        /\ urgency_result.urgency_score = CappedSum
        /\ \A source \in {"github", "slack", "notion"} :
              ~HasSuccess(source) => FromSource(urgency_result.urgent_items, source) = <<>>

(***************************************************************************)
(* calculate_relationship_weight on its own: a builder whose method is     *)
(* called again and again; the latest two calls are kept.                  *)
(***************************************************************************)
\* the greatest interaction count of a call
MaxInteractions == 20

\* the six relationship types of the table and one that it does not list
RelationshipTypes ==
    {"authored", "contributed", "modified", "uses", "decided", "related", "mentions"}

WeightInit ==
    /\ BuilderIdle
    /\ AgentIdle
    /\ EngineIdle
    /\ weight_calls = <<>>
    /\ ModulesIdle
    /\ PipelineIdle

\* weight = self.calculate_relationship_weight(source, target,
\*     interaction_count, relationship_type)
CalculateWeight(interaction_count, relationship_type) ==
    /\ weight_calls' =
          (IF weight_calls = <<>> THEN <<>> ELSE <<weight_calls[Len(weight_calls)]>>)
          \o <<[relationship_type |-> relationship_type,
                interaction_count |-> interaction_count,
                weight |-> calculate_relationship_weight(
                               "person-alice", "commit-abc1234",
                               interaction_count, relationship_type)]>>
    /\ UNCHANGED <<builder_vars, agent_vars, engine_vars, modules_vars, pipeline_vars>>

WeightNext ==
    \E interaction_count \in 0..MaxInteractions, relationship_type \in RelationshipTypes :
        CalculateWeight(interaction_count, relationship_type)

WeightSpec == WeightInit /\ [][WeightNext]_vars

(***************************************************************************)
(* Properties of calculate_relationship_weight, stated on the latest two   *)
(* calls of WeightSpec.                                                    *)
(***************************************************************************)
TwoCalls == Len(weight_calls) = 2

\* the place of a relationship type in the order authored > decided >
\* contributed = modified > uses > related, an unlisted type being placed
\* with related
TypeRank(relationship_type) ==
    IF relationship_type = "authored" THEN 5
    ELSE IF relationship_type = "decided" THEN 4
    ELSE IF relationship_type \in {"contributed", "modified"} THEN 3
    ELSE IF relationship_type = "uses" THEN 2
    ELSE 1

\* C17: of two calls with the same relationship type the one with the
\* greater interaction count returns no smaller a weight, and of two calls
\* with the same interaction count the one whose type is higher in the
\* order authored > decided > contributed = modified > uses > related
\* (unlisted types with related) returns the greater weight, types of the
\* same place returning the same weight
C17_WeightOrder ==
    TwoCalls =>
        /\ (/\ weight_calls[1].relationship_type = weight_calls[2].relationship_type
            /\ weight_calls[1].interaction_count <= weight_calls[2].interaction_count)
              => FloatValue(weight_calls[1].weight) <= FloatValue(weight_calls[2].weight)
        /\ (/\ weight_calls[1].interaction_count = weight_calls[2].interaction_count
            /\ TypeRank(weight_calls[1].relationship_type)
                  > TypeRank(weight_calls[2].relationship_type))
              => FloatValue(weight_calls[1].weight) > FloatValue(weight_calls[2].weight)
        /\ (/\ weight_calls[1].interaction_count = weight_calls[2].interaction_count
            /\ TypeRank(weight_calls[1].relationship_type)
                  = TypeRank(weight_calls[2].relationship_type))
              => FloatValue(weight_calls[1].weight) = FloatValue(weight_calls[2].weight)

\* the calls weight(authored, 5) and then weight(authored, 20), the second
\* returning the strictly greater weight
C17_Witness ==
    /\ TwoCalls
    /\ weight_calls[1].relationship_type = "authored"
    /\ weight_calls[2].relationship_type = "authored"
    /\ weight_calls[1].interaction_count = 5
    /\ weight_calls[2].interaction_count = 20
    /\ FloatValue(weight_calls[1].weight) < FloatValue(weight_calls[2].weight)

(***************************************************************************)
(* extract_modules called on its own, on a text that mentions technologies *)
(* in URLs and paths or in prose, with an action verb near the mention,    *)
(* far from it, or nowhere.                                                *)
(***************************************************************************)
TextBeginnings ==
    {"", "Please ", "fix ", "fix the login page and all of the forms; "}
TextMentions ==
    {"see http://x.io/redis/a",
     "we like Redis a lot",
     "see http://x.io/redis/a and docs/pg/b",
     "a/b is where the redis cache lives",
     "see /mongo and then see the redis cache"}
TextEndings ==
    {"", " then", " for details and later on we deploy"}
ModuleTexts ==
    { beginning \o mention \o ending :
        beginning \in TextBeginnings, mention \in TextMentions, ending \in TextEndings }

ModulesInit ==
    /\ BuilderIdle
    /\ AgentIdle
    /\ EngineIdle
    /\ weight_calls = <<>>
    /\ modules_text \in ModuleTexts
    /\ modules_set = NoModules
    /\ PipelineIdle

\* modules = self.extract_modules(text)
ExtractModules ==
    /\ modules_set = NoModules
    /\ modules_set' = extract_modules(modules_text)
    /\ UNCHANGED <<builder_vars, agent_vars, engine_vars, weight_vars, modules_text, pipeline_vars>>

ModulesNext == ExtractModules

ModulesSpec == ModulesInit /\ [][ModulesNext]_vars

(***************************************************************************)
(* Properties of extract_modules, stated on the call of ModulesSpec.       *)
(***************************************************************************)
ModulesReturned == modules_set # NoModules
LowerText == StrLower(modules_text)

\* the whole-word occurrences of a variation in the lower-cased text
Occurrences(variation) == WordMatches(LowerText, variation, 1)

\* the text from k characters before the occurrence of a variation at
\* position p to k characters after it
Window(variation, p, k) ==
    SubSeq(LowerText, Max(1, p - k), Min(Len(LowerText), p + Len(variation) - 1 + k))

\* one of the fixed action verbs occurs in s
HasVerb(s) == \E j \in DOMAIN valid_indicators : StrContains(s, valid_indicators[j])

\* every occurrence of the variation has a '/' within 10 characters
OnlyInPaths(variation) ==
    \A m \in DOMAIN Occurrences(variation) :
        StrContains(Window(variation, Occurrences(variation)[m], 10), "/")

\* some occurrence of the variation has an action verb within 20 characters
VerbNearby(variation) ==
    \E m \in DOMAIN Occurrences(variation) :
        HasVerb(Window(variation, Occurrences(variation)[m], 20))

\* the technologies named by the file extensions in the text
ExtensionModules ==
    { file_extensions[e][2] :
        e \in { f \in DOMAIN file_extensions : StrContains(LowerText, file_extensions[f][1]) } }

\* C20 as stated: a variation that occurs as a whole word is accepted, and
\* its technology returned, if an action verb appears anywhere in the text
\* or some occurrence has no '/' within 10 characters
C20_VerbAnywhereAccepts ==
    ModulesReturned =>
        \A t \in DOMAIN tech_keywords : \A v \in DOMAIN tech_keywords[t].variations :
            (/\ Occurrences(tech_keywords[t].variations[v]) # <<>>
             /\ (HasVerb(LowerText) \/ ~OnlyInPaths(tech_keywords[t].variations[v])))
                => StrCapitalize(tech_keywords[t].name) \in modules_set

\* C20: a variation that occurs as a whole word is discarded exactly when
\* every occurrence has a '/' within 10 characters and no occurrence has an
\* action verb within 20 characters; a technology is returned exactly when
\* one of its variations occurs and is not discarded (or a file extension
\* of the text names it)
C20_VerbNearbyAccepts ==
    ModulesReturned =>
        \A t \in DOMAIN tech_keywords :
            (StrCapitalize(tech_keywords[t].name) \in modules_set)
              = (\/ \E v \in DOMAIN tech_keywords[t].variations :
                       /\ Occurrences(tech_keywords[t].variations[v]) # <<>>
                       /\ (\/ VerbNearby(tech_keywords[t].variations[v])
                           \/ ~OnlyInPaths(tech_keywords[t].variations[v]))
                 \/ StrCapitalize(tech_keywords[t].name) \in ExtensionModules)

\* a text with an action verb in which redis occurs only in a URL, more
\* than 20 characters from every verb: Redis is not returned
C20_Witness ==
    /\ ModulesReturned
    /\ HasVerb(LowerText)
    /\ Occurrences("redis") # <<>>
    /\ OnlyInPaths("redis")
    /\ ~VerbNearby("redis")
    /\ "Redis" \notin modules_set

(***************************************************************************)
(* The collector and the builder constructed on their own, each for a      *)
(* repository and a branch: the store directory and the collection each    *)
(* of them opens.                                                          *)
(***************************************************************************)
RepositoryNames == {"o/r", "Org/My.Repo"}
BranchNames ==
    {NoneVal, "", "main", "dev", "v1", "feature/login", "release/1.0", "fix#12",
     "hot-fix", "wip-", "_private", "x~1"}

StoreNameInit ==
    /\ BuilderIdle
    /\ AgentIdle
    /\ EngineIdle
    /\ weight_calls = <<>>
    /\ ModulesIdle
    /\ collector = Null
    /\ SummarizerIdle
    /\ commits_call = NoFetch

\* collector = GitHubCollector(repo_name=..., branch=...)
NewCollector(repo_name, branch) ==
    /\ collector' = GitHubCollector(repo_name, branch)
    /\ UNCHANGED <<builder_vars, agent_vars, engine_vars, weight_vars, modules_vars>>
    /\ UNCHANGED <<ai_summarizer, run_call, commits_call>>

\* builder = KnowledgeGraphBuilder(repo_name=..., branch=...)
NewBuilder(repo_name, branch) ==
    /\ graph_builder' = KnowledgeGraphBuilder(repo_name, branch)
    /\ UNCHANGED <<store, hash_seed, calls, decision_text, decision_metadata, decision_list>>
    /\ UNCHANGED <<agent_vars, engine_vars, weight_vars, modules_vars, pipeline_vars>>

StoreNameNext ==
    \E repo_name \in RepositoryNames, branch \in BranchNames :
        \/ NewCollector(repo_name, branch)
        \/ NewBuilder(repo_name, branch)

StoreNameSpec == StoreNameInit /\ [][StoreNameNext]_vars

(***************************************************************************)
(* Properties of the store names, stated on the collector and the builder  *)
(* of StoreNameSpec.                                                       *)
(***************************************************************************)
\* a collector and a builder constructed for the same repository and branch
SameRepositoryAndBranch ==
    /\ collector # Null
    /\ collector.github_repo = graph_builder.raw_repo_name
    /\ collector.branch = graph_builder.branch

SameStore ==
    /\ collector.chroma_dir_name = BuilderChromaDirName(graph_builder)
    /\ collector.collection_name = BuilderCollectionName(graph_builder)

\* C24 as stated: for every repository and every branch the collector and
\* the builder open the same store directory and the same collection
C24_SameStoreNames == SameRepositoryAndBranch => SameStore

\* a branch name of three characters or more, made of letters, digits,
\* '.', '_', '-' and '/', that begins and ends with a letter or a digit
PlainBranch(branch) ==
    /\ Len(branch) >= 3
    /\ \A p \in 1..Len(branch) : IsNameChar(CharAt(branch, p)) \/ CharAt(branch, p) = "/"
    /\ IsAlnum(Head(branch))
    /\ IsAlnum(CharAt(branch, Len(branch)))

\* the same statement for plain branch names
C24_SameStoreNamesOfPlainBranches ==
    (SameRepositoryAndBranch /\ PlainBranch(collector.branch)) => SameStore

(***************************************************************************)
(* The AI summarizer on its own: one AISummarizer, with any subset of its  *)
(* three agents initialized, whose run is called once.  Each initialized   *)
(* agent's process() succeeds with a generated summary, succeeds with the  *)
(* fallback summary of its text, or fails.                                 *)
(***************************************************************************)
\* the result of BaseAgent.process when no exception is raised, with the
\* lists collect_all_data adds to it
ProcessResult(agent_name, formatted_text, ai_summary) ==
    [agent |-> agent_name, raw_data |-> EmptyDict, formatted_text |-> formatted_text,
     ai_summary |-> ai_summary, timestamp |-> "<now>", success |-> TRUE,
     urgent_items |-> <<>>, action_items |-> <<>>, key_discussions |-> <<>>,
     priority_changes |-> <<>>]

\* the result of BaseAgent.process when an exception is raised
ProcessError(agent_name) ==
    [agent |-> agent_name, error |-> "API rate limit exceeded", success |-> FALSE,
     timestamp |-> "<now>"]

AgentResults(agent_name, formatted_text) ==
    { ProcessResult(agent_name, formatted_text,
                    GeneratedResult("Summary of " \o agent_name \o ".",
                                    "meta-llama/Llama-3.2-3B-Instruct", FALSE)),
      ProcessResult(agent_name, formatted_text,
                    AllFailedResult(BaseAgent(agent_name, "hf_key", 3), formatted_text, 500)),
      ProcessError(agent_name) }

ApiKeys == {NoneVal, "hf_key"}

\* an agent for each source whose token is set, all with the one
\* HUGGINGFACE_API_KEY of the environment
Summarizers ==
    { AISummarizer(IF github THEN BaseAgent("github", api_key, 3) ELSE Null,
                   IF slack THEN BaseAgent("slack", api_key, 3) ELSE Null,
                   IF notion THEN BaseAgent("notion", api_key, 3) ELSE Null) :
        github \in BOOLEAN, slack \in BOOLEAN, notion \in BOOLEAN, api_key \in ApiKeys }

RunInit ==
    /\ BuilderIdle
    /\ AgentIdle
    /\ EngineIdle
    /\ weight_calls = <<>>
    /\ ModulesIdle
    /\ collector = Null
    /\ ai_summarizer \in Summarizers
    /\ run_call = Null
    /\ commits_call = NoFetch

\* summarizer.run() is called; summary_text is what the inference service
\* answers to the unified prompt, None when it fails every call
Run(github_result, slack_result, notion_result, summary_text) ==
    /\ IsNull(run_call)
    /\ run_call' =
           [all_data |-> collect_all_data(ai_summarizer, github_result, slack_result,
                                          notion_result),
            result |-> run(ai_summarizer,
                           collect_all_data(ai_summarizer, github_result, slack_result,
                                            notion_result),
                           summary_text)]
    /\ UNCHANGED <<builder_vars, agent_vars, engine_vars, weight_vars, modules_vars>>
    /\ UNCHANGED <<collector, ai_summarizer, commits_call>>

RunNext ==
    \E github_result \in AgentResults("github", "3 commits, 1 pull request"),
       slack_result \in AgentResults("slack", "12 messages in 2 channels"),
       notion_result \in AgentResults("notion", "2 pages edited"),
       summary_text \in {NoneVal, "Daily briefing."} :
        Run(github_result, slack_result, notion_result, summary_text)

RunSpec == RunInit /\ [][RunNext]_vars

(***************************************************************************)
(* Properties of AISummarizer.run, stated on the call of RunSpec.          *)
(***************************************************************************)
RunReturned == ~IsNull(run_call)
NoAgentInitialized == IsNull(SummarizerAgent(ai_summarizer))
EveryAgentInitialized ==
    /\ ~IsNull(ai_summarizer.github_agent)
    /\ ~IsNull(ai_summarizer.slack_agent)
    /\ ~IsNull(ai_summarizer.notion_agent)

\* the unified summary of a run made with no agent: the aggregated text cut
\* to 600 characters, success = false and fallback = true
IsFallbackSummary(unified) ==
    /\ unified.unified_summary.summary = Prefix(unified.aggregated_text, 600)
    /\ unified.unified_summary.success = FALSE
    /\ unified.unified_summary.fallback = TRUE

\* C26 as stated: run returns success = true with a unified summary
\* whichever agents are initialized, and with no agent the unified summary
\* is the fallback one
C26_RunSucceedsWithAnyAgents ==
    RunReturned =>
        /\ run_call.result.success = TRUE
        /\ "unified_summary" \in DOMAIN run_call.result
        /\ NoAgentInitialized => IsFallbackSummary(run_call.result.unified_summary)

\* the same statement for a summarizer whose three agents are initialized
C26_RunSucceedsWithEveryAgent ==
    (RunReturned /\ EveryAgentInitialized) =>
        /\ run_call.result.success = TRUE
        /\ "summary" \in DOMAIN run_call.result.unified_summary.unified_summary
        /\ run_call.result.agent_data = run_call.all_data

(***************************************************************************)
(* collect_commits called once on a branch of four commits that the API    *)
(* returns in pages; each iteration over the commits completes, or fails   *)
(* before a page with a rate-limit error, a GitHub API error or another    *)
(* exception, and at most one commit of an iteration fails in the loop     *)
(* body.                                                                   *)
(***************************************************************************)
\* how many commits the API returns in one page
PageSize == 2

BranchCommits ==
    <<GitCommit("a1b2c3d", "alice", "Alice A", <<"src/app.py">>),
      GitCommit("b2c3d4e", NoneVal, "Bob B", <<"README.md">>),
      GitCommit("c3d4e5f", NoneVal, NoneVal, <<>>),
      GitCommit("d4e5f6a", "alice", NoneVal, <<"src/app.py", "README.md">>)>>

\* the exceptions an iteration raises, by the except clause that catches them
FetchErrors == {"RateLimitExceededException", "GithubException", "Exception"}

\* the numbers of commits an iteration can have yielded when the request
\* for the next page fails
PageStarts(commits) == { k \in 0..(Len(commits) - 1) : k % PageSize = 0 }

\* no commit or one commit of the first fetched
AtMostOne(fetched) == {{}} \cup { {k} : k \in 1..fetched }

CommitsInit ==
    /\ BuilderIdle
    /\ AgentIdle
    /\ EngineIdle
    /\ weight_calls = <<>>
    /\ ModulesIdle
    /\ collector = Null
    /\ SummarizerIdle
    /\ commits_call = NoFetch

\* self.collect_commits(max_commits) is called
CollectCommits(max_commits) ==
    /\ commits_call.pc = "idle"
    /\ commits_call' = StartFetch(BranchCommits, max_commits)
    /\ UNCHANGED <<builder_vars, agent_vars, engine_vars, weight_vars, modules_vars>>
    /\ UNCHANGED <<collector, ai_summarizer, run_call>>

\* one iteration over self.repo.get_commits(sha=self.branch)[:max_commits],
\* and collect_commits runs on to its next iteration or to its return
GetCommits(fetched, error, broken) ==
    /\ commits_call.pc = "fetching"
    /\ commits_call' = AfterFetch(commits_call, fetched, error, broken)
    /\ UNCHANGED <<builder_vars, agent_vars, engine_vars, weight_vars, modules_vars>>
    /\ UNCHANGED <<collector, ai_summarizer, run_call>>

\* the commits the iterations of the call go over
Iterated == IF commits_call.pc = "idle" THEN <<>> ELSE commits_call.commits

CommitsNext ==
    \/ \E max_commits \in {3, 100, 200} : CollectCommits(max_commits)
    \/ \E broken \in AtMostOne(Len(Iterated)) :
          GetCommits(Len(Iterated), "", broken)
    \/ \E fetched \in PageStarts(Iterated), error \in FetchErrors :
          \E broken \in AtMostOne(fetched) : GetCommits(fetched, error, broken)

CommitsSpec == CommitsInit /\ [][CommitsNext]_vars

(***************************************************************************)
(* Properties of collect_commits, stated on the call of CommitsSpec.       *)
(***************************************************************************)
CommitsReturned == commits_call.pc = "done"

\* no commit is twice in a list of collected commits
EachCommitOnce(commits_data) ==
    \A i, j \in DOMAIN commits_data :
        commits_data[i].sha = commits_data[j].sha => i = j

\* C27 as stated: collect_commits makes at most 3 fetch attempts and
\* returns each commit of the branch at most once, also when an attempt
\* failed part-way through the iteration
C27_ThreeAttemptsEachCommitOnce ==
    /\ commits_call.pc = "fetching" => commits_call.attempt < 3
    /\ CommitsReturned =>
          /\ commits_call.attempt < 3
          /\ EachCommitOnce(commits_call.commits_data)

\* the bound on the attempts alone
C27_ThreeAttempts ==
    commits_call.pc \in {"fetching", "done"} => commits_call.attempt < 3

(***************************************************************************)
(* Properties of build_graph, stated on its last call and on the builder   *)
(* as that call left it                                                    *)
(***************************************************************************)
Built == calls # <<>>
LastRows == calls[Len(calls)].rows
LastPayload == calls[Len(calls)].payload
Failed(payload) == "error" \in DOMAIN payload
Succeeded(payload) == "stats" \in DOMAIN payload
BuiltGraph == Built /\ Succeeded(LastPayload)

NodeIds(payload) == { payload.nodes[i].id : i \in DOMAIN payload.nodes }
NodesOf(payload, type) == { i \in DOMAIN payload.nodes : payload.nodes[i].type = type }
NodeIdsOf(payload, type) == { payload.nodes[i].id : i \in NodesOf(payload, type) }
LinksOf(payload, type) == { k \in DOMAIN payload.links : payload.links[k].type = type }
HasLink(payload, source, target, type) ==
    \E k \in DOMAIN payload.links :
        /\ payload.links[k].source = source
        /\ payload.links[k].target = target
        /\ payload.links[k].type = type

\* the raw author of a row, and whether normalize_author is given a name
RawAuthor(row) == DictGet(row.metadata, "author", "Unknown")
RowType(row) == DictGet(row.metadata, "type", "unknown")
SameName(a, b) == author_lower_table[a] = author_lower_table[b]

\* the name in the author_map for raw author a
Canonical(a) == DictGet(graph_builder.author_map, author_lower_table[a], NoneVal)

\* the decision labels of the rows, in the order of the rows
EncounterLabels(rows, hash) ==
    Dedup(Concat([i \in DOMAIN rows |->
        extract_decisions(rows[i].document, rows[i].metadata, hash)]))

\* the full texts of the decision nodes decision-0, decision-1, ... of a payload
DecisionNodeTexts(payload) ==
    [i \in 1..Cardinality(NodeIdsOf(payload, "decision")) |->
        (CHOOSE n \in Range(payload.nodes) :
            n.id = "decision-" \o IntToStr(i - 1)).full_text]

\* C1: in every payload build_graph returns, the source and the target of
\* every link are ids of nodes of the payload's node list
C1_LinkEndpointsAreNodes ==
    Built =>
        \A k \in DOMAIN LastPayload.links :
            /\ LastPayload.links[k].source \in NodeIds(LastPayload)
            /\ LastPayload.links[k].target \in NodeIds(LastPayload)

\* a graph built from more decisions, commits and files than the caps admit,
\* with links of the five capped kinds
C1_Witness ==
    /\ BuiltGraph
    /\ LastPayload.stats.decisions > MaxDecisionNodes
    /\ LastPayload.stats.commits > MaxCommitNodes
    /\ LastPayload.stats.files > MaxFileNodes
    /\ \A type \in {"decided", "related", "authored", "modified", "contributed"} :
           LinksOf(LastPayload, type) # {}

\* C2: a build_graph call that met an exception returns a payload of no
\* nodes, no links, a non-empty error message, the branch and the
\* repository; every call returns a payload
C2_ErrorPayloadIsEmpty ==
    Built =>
        /\ {"nodes", "links", "branch", "repository"} \subseteq DOMAIN LastPayload
        /\ Failed(LastPayload) =>
              /\ LastPayload.nodes = <<>>
              /\ LastPayload.links = <<>>
              /\ LastPayload.error # ""
              /\ LastPayload.branch = BranchName
              /\ LastPayload.repository = Repository

\* the exception was raised in the document loop, after documents had been
\* processed and nodes had been built by an earlier call
C2_Witness ==
    /\ Built
    /\ Failed(LastPayload)
    /\ LastPayload.error = "'NoneType' object has no attribute 'get'"
    /\ graph_builder.people # {}
    /\ graph_builder.nodes # <<>>

\* C3 as stated: over a store of zero documents build_graph returns no
\* nodes, no links and stats of five zeros
C3_EmptyStoreHasZeroStats ==
    (Built /\ LastRows = <<>> /\ ~Failed(LastPayload)) =>
        /\ LastPayload.nodes = <<>>
        /\ LastPayload.links = <<>>
        /\ "stats" \in DOMAIN LastPayload
        /\ LastPayload.stats =
             [people |-> 0, modules |-> 0, decisions |-> 0, commits |-> 0, files |-> 0]

\* the first raw author among those of rows, taken from the rows Counted
\* admits, that equals a case-insensitively
FirstSeen(rows, a, Counted(_)) ==
    RawAuthor(rows[CHOOSE i \in DOMAIN rows :
        /\ Counted(RawAuthor(rows[i])) /\ SameName(RawAuthor(rows[i]), a)
        /\ \A j \in 1..(i - 1) :
              ~(Counted(RawAuthor(rows[j])) /\ SameName(RawAuthor(rows[j]), a))])

\* the person nodes of the payload whose name equals a case-insensitively
PersonNodesNamed(payload, a) ==
    { payload.nodes[i] : i \in
        { n \in NodesOf(payload, "person") :
            SameName(SubSeq(payload.nodes[n].label, 2, Len(payload.nodes[n].label)), a) } }

\* the authors of the commit records of the i-th row (a commit row)
RecordedAuthors(i, row) ==
    { graph_builder.commits[c].author : c \in
        { c \in DOMAIN graph_builder.commits :
            graph_builder.commits[c].full_sha
                = CommitSha(i - 1, DictGet(row.metadata, "url", NoneVal)) } }

\* raw authors that differ only in case have one name, the first seen, and
\* one person node, for the raw authors Counted admits
OneNamePerAuthor(Counted(_)) ==
    BuiltGraph =>
        /\ \A i \in DOMAIN LastRows :
              Counted(RawAuthor(LastRows[i])) =>
                /\ Canonical(RawAuthor(LastRows[i]))
                     = FirstSeen(LastRows, RawAuthor(LastRows[i]), Counted)
                /\ RowType(LastRows[i]) = "commit" =>
                     RecordedAuthors(i, LastRows[i])
                       = {FirstSeen(LastRows, RawAuthor(LastRows[i]), Counted)}
                /\ \A n \in PersonNodesNamed(LastPayload, RawAuthor(LastRows[i])) :
                     /\ n.id = "person-" \o FirstSeen(LastRows, RawAuthor(LastRows[i]), Counted)
                     /\ n.label = "@" \o FirstSeen(LastRows, RawAuthor(LastRows[i]), Counted)
                /\ Cardinality(PersonNodesNamed(LastPayload, RawAuthor(LastRows[i]))) = 1
        /\ \A m, n \in NodesOf(LastPayload, "person") :
              SameName(SubSeq(LastPayload.nodes[m].label, 2, Len(LastPayload.nodes[m].label)),
                       SubSeq(LastPayload.nodes[n].label, 2, Len(LastPayload.nodes[n].label)))
                => LastPayload.nodes[m].id = LastPayload.nodes[n].id

\* a raw author that is a name: not empty and not the placeholder "Unknown"
Named(a) == Truthy(a) /\ a # "Unknown"

\* C4, amended: raw author names that are not empty, are not the placeholder
\* "Unknown" in this spelling and differ only in letter case all get the
\* casing seen first among them, and one person node of that name
C4_OneNamePerAuthor == OneNamePerAuthor(Named)

\* three spellings of one name in the rows of a successful build
C4_Witness ==
    /\ BuiltGraph
    /\ \E i, j, k \in DOMAIN LastRows :
          /\ i < j /\ j < k
          /\ Named(RawAuthor(LastRows[i])) /\ Named(RawAuthor(LastRows[j]))
          /\ Named(RawAuthor(LastRows[k]))
          /\ SameName(RawAuthor(LastRows[i]), RawAuthor(LastRows[j]))
          /\ SameName(RawAuthor(LastRows[i]), RawAuthor(LastRows[k]))
          /\ Cardinality({RawAuthor(LastRows[i]), RawAuthor(LastRows[j]),
                          RawAuthor(LastRows[k])}) = 3

\* C4 as stated: whatever raw author names differ only in letter case
C4_AnyNamesDifferingInCase == OneNamePerAuthor(Truthy)

\* the categories a text of DecisionTexts was written with
CategoriesOf(a_text) ==
    IF a_text \in DecisionTexts
    THEN (CHOOSE input \in DecisionInputs : input.text = a_text).categories
    ELSE {}

\* the gate of extract_decisions on the text and the metadata it was given
Accepted ==
    /\ Cardinality(CategoriesOf(decision_text)) >= 2
    /\ decision_text # NoneVal
    /\ Len(decision_text) > 150
    /\ DictGet(decision_metadata, "type", NoneVal) \in {"pull_request", "issue"}

\* C5: extract_decisions returns one label, prefixed "PR: " or "Issue: ",
\* when the text has trigger words of at least 2 categories, is longer than
\* 150 characters and the type is pull_request or issue; otherwise it
\* returns the empty list
C5_DecisionGate ==
    decision_list # NotCalled =>
        IF Accepted
        THEN /\ Len(decision_list) = 1
             /\ IF decision_metadata.type = "pull_request"
                THEN Prefix(decision_list[1], 4) = "PR: "
                ELSE Prefix(decision_list[1], 7) = "Issue: "
        ELSE decision_list = <<>>

\* a pull request text of 151 characters and two categories gave one label
C5_Witness ==
    /\ decision_list # NotCalled
    /\ Len(decision_list) = 1
    /\ decision_text # NoneVal
    /\ Len(decision_text) = 151
    /\ Cardinality(CategoriesOf(decision_text)) = 2
    /\ DictGet(decision_metadata, "type", NoneVal) = "pull_request"

\* C6: the payload has at most 30 commit nodes, every modified link starts
\* at one of them and every authored link ends at one of them
C6_CommitNodesCapped ==
    Built =>
        /\ Cardinality(NodeIdsOf(LastPayload, "commit")) <= 30
        /\ \A k \in LinksOf(LastPayload, "modified") :
              LastPayload.links[k].source \in NodeIdsOf(LastPayload, "commit")
        /\ \A k \in LinksOf(LastPayload, "authored") :
              LastPayload.links[k].target \in NodeIdsOf(LastPayload, "commit")

\* 30 commit nodes of more than 30 commits, with modified and authored links
C6_Witness ==
    /\ BuiltGraph
    /\ LastPayload.stats.commits > 30
    /\ Cardinality(NodeIdsOf(LastPayload, "commit")) = 30
    /\ LinksOf(LastPayload, "modified") # {}
    /\ LinksOf(LastPayload, "authored") # {}

\* C7 as stated: the decision nodes are the first 15 distinct decision
\* labels in the order in which the documents producing them are met
C7_DecisionNodesInEncounterOrder ==
    BuiltGraph =>
        DecisionNodeTexts(LastPayload)
            = SeqPrefix(EncounterLabels(LastRows, str_hash[hash_seed]), 15)

\* C8 as stated: two calls over the same rows return the same nodes, links
\* and stats
C8_SameStoreSamePayload ==
    \A i, j \in DOMAIN calls :
        (/\ i < j
         /\ calls[i].rows = calls[j].rows
         /\ Succeeded(calls[i].payload) /\ Succeeded(calls[j].payload)) =>
            /\ calls[j].payload.nodes = calls[i].payload.nodes
            /\ calls[j].payload.links = calls[i].payload.links
            /\ calls[j].payload.stats = calls[i].payload.stats

\* the commit rows of a store
CommitRows(rows) == { i \in DOMAIN rows : RowType(rows[i]) = "commit" }

\* C9 as stated: the stats of a successful build over a non-empty store are
\* the numbers of distinct normalized authors, modules, decision labels,
\* commit documents and file paths of the documents, each at least the
\* number of nodes of its type
C9_StatsCountEntities ==
    (BuiltGraph /\ LastRows # <<>>) =>
        /\ LastPayload.stats.people =
             Cardinality({ author_lower_table[RawAuthor(LastRows[i])] :
                              i \in { r \in DOMAIN LastRows : Named(RawAuthor(LastRows[r])) } })
        /\ LastPayload.stats.modules =
             Cardinality(UNION { extract_modules_table[LastRows[i].document] :
                                    i \in DOMAIN LastRows })
        /\ LastPayload.stats.decisions =
             Len(EncounterLabels(LastRows, str_hash[hash_seed]))
        /\ LastPayload.stats.commits = Cardinality(CommitRows(LastRows))
        /\ LastPayload.stats.files =
             Cardinality(UNION { files_in_commit_table[LastRows[i].document] :
                                    i \in CommitRows(LastRows) })
        /\ LastPayload.stats.decisions >= Cardinality(NodesOf(LastPayload, "decision"))
        /\ LastPayload.stats.commits >= Cardinality(NodesOf(LastPayload, "commit"))
        /\ LastPayload.stats.files >= Cardinality(NodesOf(LastPayload, "file"))

\* the ids of the decision nodes of the label named
DecisionNodeIds(payload, label) ==
    { payload.nodes[i].id :
        i \in { n \in NodesOf(payload, "decision") : payload.nodes[n].full_text = label } }

\* the relationships of one row whose endpoints are nodes have their links
RowIsLinked(payload, i, row, person, modules, labels, hash) ==
    /\ \A m \in modules :
          Named(RawAuthor(row)) => HasLink(payload, person, "module-" \o m, "uses")
    /\ \A l \in labels : \A d \in DecisionNodeIds(payload, l) :
          /\ Named(RawAuthor(row)) => HasLink(payload, person, d, "decided")
          /\ \A m \in modules : HasLink(payload, "module-" \o m, d, "related")
    /\ RowType(row) = "commit" =>
          \A c \in { "commit-" \o Prefix(CommitSha(i - 1, DictGet(row.metadata, "url", NoneVal)), 7) }
                     \cap NodeIds(payload) :
             /\ Named(RawAuthor(row)) => HasLink(payload, person, c, "authored")
             /\ \A f \in { FileId(p, hash) : p \in files_in_commit_table[row.document] }
                           \cap NodeIds(payload) :
                   /\ HasLink(payload, c, f, "modified")
                   /\ Named(RawAuthor(row)) => HasLink(payload, person, f, "contributed")

\* C10 as stated: every relationship recorded while the documents are
\* processed whose two endpoints are nodes of the payload has its link
C10_RecordedRelationshipsLinked ==
    BuiltGraph =>
        \A i \in DOMAIN LastRows :
            RowIsLinked(LastPayload, i, LastRows[i],
                        IF Named(RawAuthor(LastRows[i]))
                        THEN "person-" \o Canonical(RawAuthor(LastRows[i]))
                        ELSE NoneVal,
                        extract_modules_table[LastRows[i].document],
                        Range(extract_decisions(LastRows[i].document, LastRows[i].metadata,
                                                str_hash[hash_seed])),
                        str_hash[hash_seed])

\* collection.get raised in the last call
StoreFailed == Failed(LastPayload) /\ LastPayload.error \in GetErrors

\* C11 as stated: a document with malformed metadata or missing fields never
\* aborts the build: the payload has no error field and holds the person
\* nodes derived from the other documents
C11_MalformedDocumentHandled ==
    (Built /\ LastRows # <<>> /\ ~StoreFailed) =>
        /\ ~Failed(LastPayload)
        /\ \A i \in DOMAIN LastRows :
              (~IsNoneMeta(LastRows[i].metadata) /\ Named(RawAuthor(LastRows[i]))) =>
                  "person-" \o Canonical(RawAuthor(LastRows[i])) \in NodeIds(LastPayload)

(***************************************************************************)
(* Properties of summarize_text                                            *)
(***************************************************************************)
\* the call has returned, and its result is a generated summary
SummarizeReturned == summarize_call.pc = "done"
IsGenerated(result) == "success" \in DOMAIN result /\ result.success = TRUE

\* C12 as stated: every result of summarize_text that is not a generated
\* summary has success = false and fallback = true, and its summary is the
\* text given cut at max_length
C12_DegradedResultIsMarked ==
    (SummarizeReturned /\ ~IsGenerated(summarize_call.result)) =>
        /\ "success" \in DOMAIN summarize_call.result
        /\ summarize_call.result.success = FALSE
        /\ "fallback" \in DOMAIN summarize_call.result
        /\ summarize_call.result.fallback = TRUE
        /\ Prefix(summarize_call.result.summary, summarize_call.max_length)
             = Prefix(summarize_call.given, summarize_call.max_length)

UrgencyReturned == UrgencyCalled /\ ~Raised(urgency_result)

\* the fixed recommendation string of each level (the leading emoji is
\* written as its name in brackets)
LevelRecommendation ==
    [critical |-> "[warning] IMMEDIATE ACTION REQUIRED: Multiple critical items need attention. Prioritize urgent GitHub issues and Slack action items.",
     high |-> "[high voltage] HIGH PRIORITY: Several items require prompt attention. Review and address within 24 hours.",
     medium |-> "[clipboard] MODERATE ACTIVITY: Some items need attention. Plan to address in the next few days.",
     low |-> "[check mark] LOW URGENCY: No critical items. Continue with planned work."]

\* C14: the level analyze_urgency returns is the one level of its score
\* (low below 0.2, medium from 0.2 and below 0.4, high from 0.4 and below
\* 0.7, critical from 0.7), and the recommendation is the fixed string of
\* that level
C14_LevelAgreesWithScore ==
    UrgencyReturned =>
        /\ urgency_result.urgency_level \in {"low", "medium", "high", "critical"}
        /\ (urgency_result.urgency_level = "low") = (urgency_result.urgency_score < 20)
        /\ (urgency_result.urgency_level = "medium")
              = (20 <= urgency_result.urgency_score /\ urgency_result.urgency_score < 40)
        /\ (urgency_result.urgency_level = "high")
              = (40 <= urgency_result.urgency_score /\ urgency_result.urgency_score < 70)
        /\ (urgency_result.urgency_level = "critical") = (urgency_result.urgency_score >= 70)
        /\ urgency_result.recommendation = LevelRecommendation[urgency_result.urgency_level]

\* a score that lies on a threshold: 0.7, which is critical
C14_Witness ==
    /\ UrgencyReturned
    /\ urgency_result.urgency_score = 70
    /\ urgency_result.urgency_level = "critical"

DecisionsMade == ~IsNull(decisions_result) /\ decisions_result.success = TRUE

\* the severity rank of a priority and the confidence of a recommendation
Severity == [critical |-> 0, high |-> 1, medium |-> 2, low |-> 3]
Confident(recommendation) ==
    recommendation.confidence >= decision_engine.decision_threshold

\* C15: the recommendations are sorted by priority severity (critical,
\* high, medium, low) and, among equal priorities, by confidence
\* descending; high_confidence_recommendations is the subsequence of the
\* recommendations whose confidence is at least the threshold
C15_RankedAndFiltered ==
    DecisionsMade =>
        /\ \A i, j \in DOMAIN decisions_result.recommendations :
              i < j =>
                 \/ Severity[decisions_result.recommendations[i].priority]
                       < Severity[decisions_result.recommendations[j].priority]
                 \/ /\ decisions_result.recommendations[i].priority
                          = decisions_result.recommendations[j].priority
                    /\ decisions_result.recommendations[i].confidence
                          >= decisions_result.recommendations[j].confidence
        /\ decisions_result.high_confidence_recommendations
              = SelectSeq(decisions_result.recommendations, Confident)

\* four recommendations, of which two of priority high are ordered by their
\* confidence (against the order in which they were created), and some but
\* not all of which reach the threshold
C15_Witness ==
    /\ DecisionsMade
    /\ Len(decisions_result.recommendations) = 4
    /\ decisions_result.recommendations[1].title = "Review Roadmap Changes"
    /\ decisions_result.recommendations[2].title = "Address Urgent Items"
    /\ decisions_result.recommendations[2].priority = "high"
    /\ decisions_result.recommendations[3].priority = "medium"
    /\ Len(decisions_result.high_confidence_recommendations) \in 1..3

(***************************************************************************)
(* Properties of the extractors across interpreter runs.                   *)
(***************************************************************************)
\* C16: extract_decisions is a pure function of its text and metadata: the
\* list a builder returns is the list a builder of any other run (any str
\* hash seed) returns for the same text and metadata, the order of the
\* categories inside the brackets of a label included
C16_SameDecisionsInEveryRun ==
    decision_list # NotCalled =>
        \A seed \in HashSeeds :
            extract_decisions(decision_text, decision_metadata, str_hash[seed])
                = decision_list

(***************************************************************************)
(* Properties of the file nodes and of the node scores.                    *)
(***************************************************************************)
\* the paths of the file nodes of the last payload
FileNodePaths == { LastPayload.nodes[i].path : i \in NodesOf(LastPayload, "file") }

\* the file map of the builder after the call: <<path, data>> in insertion
\* order
FileMap == graph_builder.files

\* the i-th file of the map yields to the j-th: it has fewer touching
\* commits, or as many and was inserted later
YieldsTo(i, j) ==
    \/ Len(FileMap[i][2].commits) < Len(FileMap[j][2].commits)
    \/ /\ Len(FileMap[i][2].commits) = Len(FileMap[j][2].commits)
       /\ j < i

\* C18 as stated: the file nodes are the 25 files of the file map touched
\* by the most commits (all of them when the map has at most 25): every
\* file left out has no more touching commits than any file that is a node,
\* and if it has as many it was inserted later
C18_FileNodesAreMostChanged ==
    BuiltGraph =>
        /\ FileNodePaths \subseteq { FileMap[i][1] : i \in DOMAIN FileMap }
        /\ Cardinality(FileNodePaths) = Min(25, Len(FileMap))
        /\ Cardinality(NodesOf(LastPayload, "file")) = Cardinality(FileNodePaths)
        /\ \A i, j \in DOMAIN FileMap :
              (FileMap[i][1] \notin FileNodePaths /\ FileMap[j][1] \in FileNodePaths)
                  => YieldsTo(i, j)

\* the same statement for the first build_graph call of a builder
C18_FileNodesOfFirstBuild ==
    (BuiltGraph /\ Len(calls) = 1) =>
        /\ FileNodePaths \subseteq { FileMap[i][1] : i \in DOMAIN FileMap }
        /\ Cardinality(FileNodePaths) = Min(25, Len(FileMap))
        /\ Cardinality(NodesOf(LastPayload, "file")) = Cardinality(FileNodePaths)
        /\ \A i, j \in DOMAIN FileMap :
              (FileMap[i][1] \notin FileNodePaths /\ FileMap[j][1] \in FileNodePaths)
                  => YieldsTo(i, j)

\* the links of the last payload that touch the node id named
Touching(node_id) ==
    { k \in DOMAIN LastPayload.links :
        LastPayload.links[k].source = node_id \/ LastPayload.links[k].target = node_id }

\* the base importance of a node type, in tenths
TypeBase == [person |-> 15, file |-> 13, commit |-> 10, module |-> 14, decision |-> 12]

RECURSIVE SumOfConnections(_)
\* the sum of the connections fields of a list of nodes
SumOfConnections(node_list) ==
    IF node_list = <<>> THEN 0
    ELSE Head(node_list).connections + SumOfConnections(Tail(node_list))

\* C19: in a successful payload every node's connections is the number of
\* links of the payload that begin or end at the node, its importance is
\* type_base(type) * (1 + ln(1 + connections)), and the connections of all
\* nodes add up to twice the number of links
C19_ConnectionsCountLinks ==
    BuiltGraph =>
        /\ \A i \in DOMAIN LastPayload.nodes :
              /\ LastPayload.nodes[i].connections
                    = Cardinality(Touching(LastPayload.nodes[i].id))
              /\ LastPayload.nodes[i].importance
                    = [tenths |-> TypeBase[LastPayload.nodes[i].type],
                       n |-> LastPayload.nodes[i].connections]
        /\ SumOfConnections(LastPayload.nodes) = 2 * Len(LastPayload.links)

\* a graph with links in which some node is the source of one link and the
\* target of another
C19_Witness ==
    /\ BuiltGraph
    /\ LastPayload.links # <<>>
    /\ \E i \in DOMAIN LastPayload.nodes :
          /\ \E k \in Touching(LastPayload.nodes[i].id) :
                LastPayload.links[k].source = LastPayload.nodes[i].id
          /\ \E k \in Touching(LastPayload.nodes[i].id) :
                LastPayload.links[k].target = LastPayload.nodes[i].id
          /\ LastPayload.nodes[i].connections >= 2

(***************************************************************************)
(* Properties of the retry loops of summarize_text, stated on the          *)
(* chat_completion calls made so far (summarize_call.attempts).            *)
(***************************************************************************)
GenerationCalls == summarize_call.attempts
SummarizeStarted == summarize_call.pc # "idle" /\ "models_to_try" \in DOMAIN summarize_call

\* the place in models_to_try of the model the i-th generation call used
ModelPlace(i) == ListIndex(summarize_call.models_to_try, GenerationCalls[i].model)

\* C21: the models are tried in the order primary, then the fallbacks as
\* listed; each model gets at most max_retries attempts whatever the error;
\* the next model is tried only after the max_retries-th attempt on the
\* current one has failed; nothing is called after an answer; and at most
\* (1 + number of fallbacks) * max_retries generation calls are made, after
\* the last of which the call has returned
C21_BoundedRetriesInOrder ==
    SummarizeStarted =>
        /\ summarize_call.models_to_try
              = <<base_agent.huggingface_model>> \o base_agent.fallback_models
        /\ GenerationCalls # <<>> =>
              (ModelPlace(1) = 0 /\ GenerationCalls[1].attempt = 0)
        /\ \A i \in DOMAIN GenerationCalls :
              /\ GenerationCalls[i].attempt < base_agent.max_retries
              /\ i < Len(GenerationCalls) =>
                    /\ GenerationCalls[i].outcome # "answered"
                    /\ \/ /\ ModelPlace(i + 1) = ModelPlace(i)
                          /\ GenerationCalls[i + 1].attempt = GenerationCalls[i].attempt + 1
                       \/ /\ ModelPlace(i + 1) = ModelPlace(i) + 1
                          /\ GenerationCalls[i + 1].attempt = 0
                          /\ GenerationCalls[i].attempt = base_agent.max_retries - 1
        /\ Len(GenerationCalls)
              <= (1 + Len(base_agent.fallback_models)) * base_agent.max_retries
        /\ (GenerationCalls # <<>> /\ Last(GenerationCalls).outcome = "answered")
              => summarize_call.pc = "done"
        /\ Len(GenerationCalls)
              = (1 + Len(base_agent.fallback_models)) * base_agent.max_retries
              => summarize_call.pc = "done"

\* every model failed every attempt, model-loading errors among them, and
\* the call returned after (1 + 3) * 3 generation calls
C21_Witness ==
    /\ SummarizeStarted
    /\ summarize_call.pc = "done"
    /\ base_agent.max_retries = 3
    /\ Len(GenerationCalls) = 12
    /\ \E i \in DOMAIN GenerationCalls :
          StrContains(StrLower(GenerationCalls[i].outcome), "loading")
    /\ \E i \in DOMAIN GenerationCalls :
          ~StrContains(StrLower(GenerationCalls[i].outcome), "loading")

(***************************************************************************)
(* Properties of the person and commit nodes.                              *)
(***************************************************************************)
\* the commit rows of the last call whose author has the normalized name of
\* raw author a
CommitRowsOf(a) ==
    { i \in CommitRows(LastRows) :
        /\ Named(RawAuthor(LastRows[i]))
        /\ Canonical(RawAuthor(LastRows[i])) = Canonical(a) }

\* the files those commits touch
FilesTouchedBy(a) == UNION { files_in_commit_table[LastRows[i].document] : i \in CommitRowsOf(a) }

\* C22 as stated: a person node's commits field is the number of commit
\* documents of that person under the normalized name, and its files field
\* is the number of distinct files those commits touch
C22_PersonCommitsAndFiles ==
    (BuiltGraph /\ LastRows # <<>>) =>
        \A r \in DOMAIN LastRows : \A i \in DOMAIN LastPayload.nodes :
            (/\ Named(RawAuthor(LastRows[r]))
             /\ LastPayload.nodes[i].id = "person-" \o Canonical(RawAuthor(LastRows[r])))
                => /\ LastPayload.nodes[i].commits
                        = Cardinality(CommitRowsOf(RawAuthor(LastRows[r])))
                   /\ LastPayload.nodes[i].files
                        = Cardinality(FilesTouchedBy(RawAuthor(LastRows[r])))

\* the commits half of the statement alone
C22_PersonCommits ==
    (BuiltGraph /\ LastRows # <<>>) =>
        \A r \in DOMAIN LastRows : \A i \in DOMAIN LastPayload.nodes :
            (/\ Named(RawAuthor(LastRows[r]))
             /\ LastPayload.nodes[i].id = "person-" \o Canonical(RawAuthor(LastRows[r])))
                => LastPayload.nodes[i].commits
                      = Cardinality(CommitRowsOf(RawAuthor(LastRows[r])))

\* C23 as stated: distinct commit documents among the first 30 give
\* distinct commit nodes, so there are min(30, number of commit documents)
\* commit nodes, also when full shas differ only after their first
\* characters
C23_CommitNodePerCommit ==
    (BuiltGraph /\ LastRows # <<>>) =>
        Cardinality(NodeIdsOf(LastPayload, "commit"))
            = Min(30, Cardinality(CommitRows(LastRows)))

\* the same statement for the first build_graph call of a builder over
\* commits no two of which share the first seven characters of their shas
C23_CommitNodePerShortSha ==
    (/\ BuiltGraph /\ LastRows # <<>> /\ Len(calls) = 1
     /\ \A i, j \in CommitRows(LastRows) :
           i # j => Prefix(url_tail_table[LastRows[i].metadata.url], 7)
                       # Prefix(url_tail_table[LastRows[j].metadata.url], 7))
        => Cardinality(NodeIdsOf(LastPayload, "commit"))
              = Min(30, Cardinality(CommitRows(LastRows)))

(***************************************************************************)
(* Properties of make_decisions on the results of the summarizer.          *)
(***************************************************************************)
DecisionsReturned == ~IsNull(decisions_result)

C25_DecidesForDicts ==
    (DecisionsReturned /\ ~AnyNull(AgentData)) =>
        /\ decisions_result.success = TRUE
        /\ "urgency_analysis" \in DOMAIN decisions_result
        /\ decisions_result.urgency_analysis.urgency_score = CappedSum

(***************************************************************************)
(* Properties of the store across runs of the collector.                   *)
(***************************************************************************)
\* the store holds every row collect_all stores for the GitHub data named
Collected(data) ==
    /\ store # <<>>
    /\ \A row \in Range(StoreRows(data, BranchName)) : \E i \in DOMAIN store : store[i] = row

\* no two rows of the store have the same id
UniqueIds(rows) == \A i, j \in DOMAIN rows : rows[i].id = rows[j].id => i = j

\* the stats of the payload a new builder returns for the rows in a process
\* with the hash seed given (Null when the payload has none)
StatsOfBuild(rows, seed) ==
    DictGet(build_graph(KnowledgeGraphBuilder(Repository, BranchName), rows, "",
                        str_hash[seed]).payload,
            "stats", Null)

\* the store after one more collect_all run over the GitHub data named
CollectedAgain(data) == Upsert(store, StoreRows(data, BranchName))

\* C28: a collect_all run over GitHub data whose rows the store already
\* holds leaves the store as it was, with no two rows of one id, and a
\* build over the store returns the same stats after the run as before it,
\* also in a process with another hash seed
C28_SecondRunChangesNothing ==
    \A data \in {DataSmall, DataBig} :
        Collected(data) =>
            /\ CollectedAgain(data) = store
            /\ UniqueIds(CollectedAgain(data))
            /\ \A after \in HashSeeds \ {hash_seed} :
                  StatsOfBuild(CollectedAgain(data), after) = StatsOfBuild(store, hash_seed)

\* collect_all ran over the larger data, a build over the store succeeded,
\* and the store still holds what the run stored
C28_Witness ==
    /\ Collected(DataBig)
    /\ BuiltGraph
    /\ LastRows = store
    /\ LastPayload.stats.commits = NumBigCommits

(***************************************************************************)
(* Properties of the contributors of the file nodes and of the links.      *)
(***************************************************************************)
\* the person nodes of the last payload with a 'contributed' link to the
\* node id named
ContributorsOf(file_id) ==
    { p \in NodeIdsOf(LastPayload, "person") : HasLink(LastPayload, p, file_id, "contributed") }

\* the commit rows of the last call that touch the path named
CommitRowsTouching(path) ==
    { i \in CommitRows(LastRows) : path \in files_in_commit_table[LastRows[i].document] }

\* C29 as stated: the contributors field of every file node is the number
\* of distinct person nodes with a 'contributed' link to it, a commit with
\* no resolvable author adding no contributor
C29_ContributorsArePersons ==
    (BuiltGraph /\ LastRows # <<>>) =>
        \A i \in NodesOf(LastPayload, "file") :
            LastPayload.nodes[i].contributors
                = Cardinality(ContributorsOf(LastPayload.nodes[i].id))

\* the same statement for the file nodes all of whose commits have an
\* author that is a name
C29_ContributorsOfAuthoredFiles ==
    (BuiltGraph /\ LastRows # <<>>) =>
        \A i \in NodesOf(LastPayload, "file") :
            (\A r \in CommitRowsTouching(LastPayload.nodes[i].path) :
                Named(RawAuthor(LastRows[r])))
            => LastPayload.nodes[i].contributors
                  = Cardinality(ContributorsOf(LastPayload.nodes[i].id))

\* no two links of a payload have the same source, target and type
NoLinkTwice(payload) ==
    \A k, l \in DOMAIN payload.links :
        (/\ payload.links[k].source = payload.links[l].source
         /\ payload.links[k].target = payload.links[l].target
         /\ payload.links[k].type = payload.links[l].type) => k = l

\* no two commit rows have shas with the same first seven characters
DistinctShortShas(rows) ==
    \A i, j \in CommitRows(rows) :
        i # j => Prefix(url_tail_table[rows[i].metadata.url], 7)
                    # Prefix(url_tail_table[rows[j].metadata.url], 7)

\* C30 as stated: the link list of the payload of a successful build holds
\* no two links with the same source, the same target and the same type
C30_NoLinkTwice == BuiltGraph => NoLinkTwice(LastPayload)

\* the same statement for the first build_graph call of a builder over
\* commits no two of which share the first seven characters of their shas
C30_NoLinkTwiceOfShortShas ==
    (BuiltGraph /\ Len(calls) = 1 /\ LastRows # <<>> /\ DistinctShortShas(LastRows))
        => NoLinkTwice(LastPayload)
====
